---- MODULE Spec2Model ----
(***************************************************************************)
(* Model of the order-execution engine (ExecutorService with its           *)
(* OrderValidator, OrderSubmitter, OrderMonitor and OrderRepository) and   *)
(* of the reconnection coordinator (ErrorHandler), the market-data stream  *)
(* of the WebSocketManager and the DataProcessor (validator / batcher) of  *)
(* TradeSync.                                                              *)
(*                                                                         *)
(* The program is single-threaded JavaScript.  A macrotask (timer tick,    *)
(* HTTP completion, socket frame, public API call) runs together with the  *)
(* promise continuations it makes runnable before the next macrotask is    *)
(* taken.  Continuations that interleave with each other are modelled as   *)
(* separate steps in the order the promise job queue runs them; while such *)
(* a step is pending no macrotask action is enabled (MicroPending).        *)
(***************************************************************************)
EXTENDS Integers, Sequences, FiniteSets, TLC

VARIABLES
  orders,           \* OrderRepository.orders: internal id (index) -> record
  alpacaOrderMap,   \* OrderRepository.alpacaOrderMap: brokerage id -> internal id
  orderQueue,       \* ExecutorService.orderQueue
  processingQueue,  \* ExecutorService.processingQueue
  pc,               \* per order: position of the processOrder call working on it
  monitoredOrders,  \* OrderMonitor.monitoredOrders
  brokerOrders,     \* brokerage ids the brokerage has created
  hist,             \* per order: calls made and events emitted for it
  valEnv,           \* the brokerage's answers to the validator call in flight
  lastCancel,       \* the cancelOrder call that is returning to its caller
  dupRetries,       \* resubmissions within the submitter call in flight
  reconnectAttempts,\* ErrorHandler.reconnectAttempts
  reconnectTimer,   \* ErrorHandler.reconnectTimer
  ehConfig,         \* ErrorHandler constructor config
  ehHist,           \* signals emitted / timers started since the last reset
  dataState,        \* WebSocketManager.dataState
  dataWS,           \* WebSocketManager.dataWS: slot of the socket, 0 for null
  sockets,          \* the sockets created and not yet collected, by slot
  emitting,         \* slot of the socket between its 'error' and 'close' emit
  subscriptions,    \* WebSocketManager.subscriptions
  msgAge,           \* now - dataMetrics.lastMessageTime
  wsHist,           \* give-up seen since the last connect call from outside,
                    \* and the kind of frame the last step handled
  messageQueue,     \* DataProcessor.messageQueue
  batchTimer,       \* DataProcessor.batchTimer
  dpConfig,         \* DataProcessor constructor config (BatchConfig)
  lastBatch,        \* the batch handed to onBatch by the last step
  dpHist,           \* whether addMessage has turned a message down, and
                    \* how the last delivery to the sink ended
  ovRequest,        \* the request of a validateOrder call
  ovEnv,            \* what the brokerage answers during that call
  ovResult,         \* how the call ended
  osRequest,        \* the orderRequest of an OrderSubmitter.submitOrder call
  osCall,           \* that call: its position, the payloads it has posted
                    \* and the events it has emitted
  omReconnectAttempts, \* OrderMonitor.reconnectAttempts
  omSocket,         \* OrderMonitor.ws: "connecting", "open" or "closed"
  omTimer,          \* the timeout set by OrderMonitor.reconnect
  omHist,           \* the delays the monitor has scheduled since the last
                    \* open, and how often it has given up
  rcSocket,         \* the socket of a stream run by an ErrorHandler, beside
                    \* the monitor's
  repoOrders,       \* OrderRepository.orders of a repository used on its own
  repoIndex,        \* OrderRepository.alpacaOrderMap of that repository
  repoLast,         \* the last call made on that repository
  tuOrders,         \* orders on their way from submission to completion:
                    \* position, record status, what the brokerage reported
  tuMonitored,      \* OrderMonitor.monitoredOrders beside them
  tuSocket          \* the monitor's socket: "connecting", "open" or "reconnecting"

execVars == <<orders, alpacaOrderMap, orderQueue, processingQueue, pc,
              monitoredOrders, brokerOrders, hist, valEnv, lastCancel, dupRetries>>
ehVars == <<reconnectAttempts, reconnectTimer, ehConfig, ehHist>>
wsVars == <<dataState, dataWS, sockets, emitting, subscriptions, msgAge, wsHist>>
dpVars == <<messageQueue, batchTimer, dpConfig, lastBatch, dpHist>>
ovVars == <<ovRequest, ovEnv, ovResult>>
osVars == <<osRequest, osCall>>
omVars == <<omReconnectAttempts, omSocket, omTimer, omHist, rcSocket>>
orVars == <<repoOrders, repoIndex, repoLast>>
tuVars == <<tuOrders, tuMonitored, tuSocket>>
vars == <<orders, alpacaOrderMap, orderQueue, processingQueue, pc,
          monitoredOrders, brokerOrders, hist, valEnv, lastCancel, dupRetries,
          reconnectAttempts, reconnectTimer, ehConfig, ehHist,
          dataState, dataWS, sockets, emitting, subscriptions, msgAge, wsHist,
          messageQueue, batchTimer, dpConfig, lastBatch, dpHist,
          ovRequest, ovEnv, ovResult, osRequest, osCall,
          omReconnectAttempts, omSocket, omTimer, omHist, rcSocket,
          repoOrders, repoIndex, repoLast, tuOrders, tuMonitored, tuSocket>>

(***************************************************************************)
(* Bounds                                                                  *)
(***************************************************************************)
MaxOrders == 2
MaxUpdates == 2
MaxDupRetries == 1
MaxGiveUps == 2
MaxCfgAttempts == 3
MaxSockets == 2
MaxQueueSize == 2
\* posts of one OrderSubmitter.submitOrder call that are followed
MaxSubmitRequests == 3

\* the id the brokerage gives the order it creates for internal order o
\* (response.data.id); brokerage ids are unique and no internal ids
BrokerId(o) == <<"alpaca", o>>

(***************************************************************************)
(* Requests (ExecutorOrderRequest).  An absent optional field is 0, "" or  *)
(* FALSE, which is also what the code's truthiness tests treat as absent.  *)
(***************************************************************************)
BaseRequest ==
  [symbol |-> "AAPL", side |-> "buy", type |-> "market", time_in_force |-> "day",
   qty |-> 1, notional |-> 0, limit_price |-> 0, stop_price |-> 0,
   order_class |-> "", take_profit |-> FALSE, stop_loss |-> FALSE]

\* a market buy of 2 shares, and a limit order without limit price and
\* time in force
Requests ==
  { [BaseRequest EXCEPT !.qty = 2],
    [BaseRequest EXCEPT !.type = "limit", !.time_in_force = ""] }

\* what the brokerage can answer to the validator's three requests
\* (account, latest quote, order post); "error" is a failed request whose
\* kind is errKind
FetchFailures == {"403", "data", "neterr"}
BuyingPowers == {1, 2}
AskPrices == {1}
NoValEnv == [account |-> "none", buying_power |-> 0, price |-> 0, post |-> "none",
             errKind |-> "none"]
ValEnvs ==
  { [NoValEnv EXCEPT !.account = "error", !.errKind = "neterr"],
    [NoValEnv EXCEPT !.account = "ACTIVE", !.buying_power = 2, !.price = 1,
                     !.post = "error", !.errKind = "data"] }
  \cup { [NoValEnv EXCEPT !.account = "ACTIVE", !.buying_power = bp, !.price = p,
                          !.post = "ok"] : bp \in BuyingPowers, p \in AskPrices }

\* error texts of a failed submission (axios response message)
SubmitErrors == {"order rejected"}

\* statuses a trade update of the brokerage can carry
TerminalStatuses == {"filled", "canceled", "expired", "rejected"}
UpdateStatuses == {"partially_filled", "filled", "canceled"}

MaxExecutionAttempts == 3
\* OrderMonitor.maxReconnectAttempts and OrderMonitor.reconnectInterval (ms)
MonitorMaxReconnectAttempts == 10
MonitorReconnectInterval == 1000

(***************************************************************************)
(* OrderValidator.validateOrder                                            *)
(***************************************************************************)
ErrIf(c, e) == IF c THEN <<e>> ELSE <<>>

quantityErrors_NeitherOnly(order) ==
  ErrIf(order.qty = 0 /\ order.notional = 0,
        "Either quantity or notional must be specified")

\* the quantity-versus-notional check
quantityErrors(order) ==
  IF order.qty # 0 /\ order.notional # 0
    THEN <<"Cannot specify both quantity and notional">>
    ELSE ErrIf(order.qty = 0 /\ order.notional = 0,
               "Either quantity or notional must be specified")

\* the bracket-order check
bracketErrors(order) ==
  IF order.order_class = "bracket"
    THEN ErrIf(~order.take_profit, "Take profit is required for bracket orders")
         \o ErrIf(~order.stop_loss, "Stop loss is required for bracket orders")
    ELSE <<>>

structuralErrors(order) ==
  ErrIf(order.symbol = "", "Symbol is required")
  \o ErrIf(order.side = "", "Side is required")
  \o ErrIf(order.type = "", "Type is required")
  \o ErrIf(order.time_in_force = "", "Time in force is required")
  \o quantityErrors(order)
  \o ErrIf(order.type = "limit" /\ order.limit_price = 0,
           "Limit price is required for limit orders")
  \o ErrIf(order.type = "stop" /\ order.stop_price = 0,
           "Stop price is required for stop orders")
  \o ErrIf(order.type = "stop_limit" /\ order.stop_price = 0,
           "Stop price is required for stop limit orders")
  \o ErrIf(order.type = "stop_limit" /\ order.limit_price = 0,
           "Limit price is required for stop limit orders")
  \o bracketErrors(order)

\* a ValidationResult the call resolves with
Returned(valid, errors) ==
  [outcome |-> "returned", valid |-> valid, errors |-> errors]

\* the call rejects with an error of the given kind
Thrown(kind) == [outcome |-> "thrown", valid |-> FALSE, errors |-> <<>>, kind |-> kind]

earlyReturn_FirstOnly(errors) == Returned(FALSE, <<Head(errors)>>)

\* the early return for a request with structural errors
earlyReturn(errors) == Returned(FALSE, errors)

validatorCatch_Rethrow(kind) == Thrown(kind)

\* the catch block of validateOrder: the error of a failed request as data
validatorCatch(kind) ==
  IF kind = "403"
    THEN Returned(FALSE, <<"Authentication failed: Please check your Alpaca API credentials">>)
    ELSE IF kind = "data"
      THEN Returned(FALSE, <<"Validation error: response message">>)
      ELSE Returned(FALSE, <<"Validation error: An unexpected error occurred">>)

\* the estimated value of the order
orderValue(order, currentPrice) ==
  IF order.notional # 0 THEN order.notional
  ELSE IF order.qty # 0 THEN order.qty * currentPrice ELSE 0

exceedsBuyingPower_Inverted(value, buyingPower) == value < buyingPower

exceedsBuyingPower_OrEqual(value, buyingPower) == value >= buyingPower

\* the comparison of the buying-power check
exceedsBuyingPower(value, buyingPower) == value > buyingPower

\* the try block of validateOrder; a failed request (account, latest quote,
\* order post) throws the error of kind env.errKind
validatorTry(order, env) ==
  IF env.account = "error" THEN Thrown(env.errKind)
  ELSE IF env.account # "ACTIVE"
    THEN Returned(FALSE, <<"Account is not active">>)
  ELSE IF order.side = "buy" /\ env.price = -1 THEN Thrown(env.errKind)
  ELSE IF order.side = "buy"
          /\ exceedsBuyingPower(orderValue(order, env.price), env.buying_power)
    THEN Returned(FALSE, <<"Insufficient buying power">>)
  ELSE IF env.post = "error" THEN Thrown(env.errKind)
  ELSE Returned(TRUE, <<>>)

\* the validator reaches its own POST /v2/orders: no structural error,
\* an active account, a price and enough buying power
validatorPosts(order, env) ==
  /\ Len(structuralErrors(order)) = 0
  /\ env.account = "ACTIVE"
  /\ order.side = "buy" => /\ env.price # -1
                           /\ ~exceedsBuyingPower(orderValue(order, env.price), env.buying_power)

validateOrder(order, env) ==
  LET errors == structuralErrors(order) IN
  IF Len(errors) > 0 THEN earlyReturn(errors)
  ELSE LET r == validatorTry(order, env) IN
       IF r.outcome = "thrown" THEN validatorCatch(r.kind) ELSE r

(***************************************************************************)
(* OrderRepository                                                         *)
(***************************************************************************)
NoId == 0
\* the errors cancelOrder raises before any brokerage call
CancelThrows == {"throw: Order not found", "throw: Order cannot be canceled"}
\* no brokerage id (alpaca_order_id undefined)
NoAlpacaId == <<"none", 0>>

MapPut(map, key, val) == [k \in DOMAIN map \cup {key} |-> IF k = key THEN val ELSE map[k]]
MapDelete(map, key) == [k \in DOMAIN map \ {key} |-> map[k]]

\* saveOrder: the brokerage-id index after storing order under id
repoSaveOrderIndex(map, order, id) ==
  IF order.alpaca_order_id # NoAlpacaId THEN MapPut(map, order.alpaca_order_id, id) ELSE map

\* updateOrder: the brokerage-id index after replacing existing by order
repoUpdateOrderIndex(map, existing, order, id) ==
  LET retracted ==
        IF existing.alpaca_order_id # NoAlpacaId
           /\ existing.alpaca_order_id # order.alpaca_order_id
          THEN MapDelete(map, existing.alpaca_order_id) ELSE map
  IN IF order.alpaca_order_id # NoAlpacaId
       THEN MapPut(retracted, order.alpaca_order_id, id) ELSE retracted

\* getOrderByAlpacaOrderId: the internal id, NoId when there is none
getOrderByAlpacaOrderId(map, repo, alpacaOrderId) ==
  IF alpacaOrderId \in DOMAIN map /\ map[alpacaOrderId] \in DOMAIN repo
    THEN map[alpacaOrderId] ELSE NoId

(***************************************************************************)
(* ExecutorService                                                         *)
(***************************************************************************)
OrderIds == DOMAIN orders

NewHist ==
  [trail |-> <<"pending">>, validateCalls |-> 0, submitCalls |-> 0,
   submitFailures |-> 0, validationFailures |-> 0,
   queued |-> 0, failed |-> 0, submitted |-> 0, updated |-> 0, completions |-> 0]

\* the statuses written to the repository, in order, without repetitions
Persist(h, status) ==
  IF h.trail[Len(h.trail)] = status THEN h ELSE [h EXCEPT !.trail = Append(@, status)]

\* continuations of processOrder / handleOrderSubmitted / handleOrderFailed
\* that run from the promise job queue before the next macrotask
MicroPCs == {"fail_c1", "fail_h2", "fail_c2", "ok_h2"}

MicroPending ==
  \/ \E o \in OrderIds :
       \/ pc[o] \in MicroPCs
       \/ pc[o] = "validating" /\ Len(structuralErrors(orders[o].request)) > 0
  \/ lastCancel.result \in CancelThrows

\* the order object stored in the repository is the object the executor
\* mutates, so updateOrder compares the record with itself
UpdateOrder(o, order, h) ==
  /\ orders' = [orders EXCEPT ![o] = order]
  /\ alpacaOrderMap' = repoUpdateOrderIndex(alpacaOrderMap, order, order, o)
  /\ hist' = [hist EXCEPT ![o] = Persist(h, order.status)]

newOrderState_Counted(orderRequest) ==
  [status |-> "pending", request |-> orderRequest, execution_attempts |-> 1,
   last_error |-> <<>>, alpaca_order_id |-> NoAlpacaId, order_response |-> "none"]

\* the initial order state submitOrder creates
newOrderState(orderRequest) ==
  [status |-> "pending", request |-> orderRequest, execution_attempts |-> 0,
   last_error |-> <<>>, alpaca_order_id |-> NoAlpacaId, order_response |-> "none"]

\* submitOrder(orderRequest); the fresh uuid is the next unused index
submitOrder(orderRequest) ==
  /\ ~MicroPending
  /\ Len(orders) < MaxOrders
  /\ LET id == Len(orders) + 1
         orderState == newOrderState(orderRequest)
     IN /\ orders' = Append(orders, orderState)
        /\ alpacaOrderMap' = repoSaveOrderIndex(alpacaOrderMap, orderState, id)
        /\ orderQueue' = Append(orderQueue, id)
        /\ pc' = Append(pc, "idle")
        /\ hist' = Append(hist, [NewHist EXCEPT !.queued = 1])
  /\ UNCHANGED <<processingQueue, monitoredOrders, brokerOrders, valEnv,
                 lastCancel, dupRetries>>
  /\ UNCHANGED <<ehVars, wsVars, dpVars, ovVars, osVars, omVars, orVars, tuVars>>

queueReady_NoFlag(processing, queue) == Len(queue) > 0

queueReady_TwoQueued(processing, queue) == ~processing /\ Len(queue) > 1

\* the guard of processQueue
queueReady(processing, queue) == ~processing /\ Len(queue) > 0

\* processQueue up to the validator's first request: dequeue one order,
\* processOrder marks it validating and calls the validator
processQueue(env) ==
  /\ ~MicroPending
  /\ queueReady(processingQueue, orderQueue)
  /\ valEnv' = env
  /\ processingQueue' = TRUE
  /\ LET o == Head(orderQueue) IN
       /\ orderQueue' = Tail(orderQueue)
       /\ pc' = [pc EXCEPT ![o] = "validating"]
       /\ UpdateOrder(o, [orders[o] EXCEPT !.status = "validating"],
                       [hist[o] EXCEPT !.validateCalls = @ + 1])
  /\ UNCHANGED <<monitoredOrders, brokerOrders, lastCancel, dupRetries>>
  /\ UNCHANGED <<ehVars, wsVars, dpVars, ovVars, osVars, omVars, orVars, tuVars>>

\* processOrder from the validator's result to the submitter's request
validationReturns(o) ==
  /\ pc[o] = "validating"
  /\ LET result == validateOrder(orders[o].request, valEnv) IN
       /\ valEnv' = NoValEnv
       /\ IF ~result.valid
            THEN /\ UpdateOrder(o, [orders[o] EXCEPT !.status = "failed",
                                     !.last_error = <<"Validation failed: ">> \o result.errors],
                                 [hist[o] EXCEPT !.failed = @ + 1,
                                                 !.validationFailures = @ + 1])
                 /\ pc' = [pc EXCEPT ![o] = "idle"]
                 /\ processingQueue' = FALSE
            ELSE /\ UpdateOrder(o, [orders[o] EXCEPT !.status = "submitting",
                                     !.execution_attempts = @ + 1],
                                 [hist[o] EXCEPT !.submitCalls = @ + 1])
                 /\ pc' = [pc EXCEPT ![o] = "submitting"]
                 /\ UNCHANGED processingQueue
  /\ UNCHANGED <<orderQueue, monitoredOrders, brokerOrders, lastCancel, dupRetries>>
  /\ UNCHANGED <<ehVars, wsVars, dpVars, ovVars, osVars, omVars, orVars, tuVars>>

\* the brokerage creates the order the submitter posted
brokerAccepts(o) ==
  /\ ~MicroPending
  /\ pc[o] = "submitting"
  /\ brokerOrders' = brokerOrders \cup {BrokerId(o)}
  /\ pc' = [pc EXCEPT ![o] = "accepted"]
  /\ UNCHANGED <<orders, alpacaOrderMap, orderQueue, processingQueue,
                 monitoredOrders, hist, valEnv, lastCancel, dupRetries>>
  /\ UNCHANGED <<ehVars, wsVars, dpVars, ovVars, osVars, omVars, orVars, tuVars>>

submittedOrder_NoStatus(order, responseId) ==
  [order EXCEPT !.alpaca_order_id = responseId, !.order_response = "new"]

\* the record handleOrderSubmitted writes for the brokerage's response
submittedOrder(order, responseId) ==
  [order EXCEPT !.status = "monitoring", !.alpaca_order_id = responseId,
                !.order_response = "new"]

\* OrderSubmitter.submitOrder succeeds and emits order_submitted;
\* handleOrderSubmitted up to its await of updateOrder
submitSucceeds(o) ==
  /\ pc[o] = "accepted"
  /\ UpdateOrder(o, submittedOrder(orders[o], BrokerId(o)), hist[o])
  /\ pc' = [pc EXCEPT ![o] = "ok_h2"]
  /\ dupRetries' = 0
  /\ UNCHANGED <<orderQueue, processingQueue, monitoredOrders, brokerOrders,
                 valEnv, lastCancel>>
  /\ UNCHANGED <<ehVars, wsVars, dpVars, ovVars, osVars, omVars, orVars, tuVars>>

\* OrderMonitor.monitorOrder
monitorOrder(monitored, order) ==
  IF order.alpaca_order_id = NoAlpacaId THEN monitored
  ELSE monitored \cup {order.alpaca_order_id}

\* the rest of handleOrderSubmitted, and processQueue's finally block
handleOrderSubmittedRest(o) ==
  /\ pc[o] = "ok_h2"
  /\ monitoredOrders' = monitorOrder(monitoredOrders, orders[o])
  /\ hist' = [hist EXCEPT ![o].submitted = @ + 1]
  /\ processingQueue' = FALSE
  /\ pc' = [pc EXCEPT ![o] = "idle"]
  /\ UNCHANGED <<orders, alpacaOrderMap, orderQueue, brokerOrders, valEnv,
                 lastCancel, dupRetries>>
  /\ UNCHANGED <<ehVars, wsVars, dpVars, ovVars, osVars, omVars, orVars, tuVars>>

\* OrderSubmitter.submitOrder is refused for a duplicate client_order_id:
\* it draws a new one and posts again within the same call
submitDuplicate(o) ==
  /\ ~MicroPending
  /\ pc[o] = "submitting"
  /\ dupRetries < MaxDupRetries
  /\ dupRetries' = dupRetries + 1
  /\ UNCHANGED <<orders, alpacaOrderMap, orderQueue, processingQueue, pc,
                 monitoredOrders, brokerOrders, hist, valEnv, lastCancel>>
  /\ UNCHANGED <<ehVars, wsVars, dpVars, ovVars, osVars, omVars, orVars, tuVars>>

shouldRetry_OffByOne(order) == order.execution_attempts <= MaxExecutionAttempts

\* the retry test of handleOrderFailed
shouldRetry(order) == order.execution_attempts < MaxExecutionAttempts

\* OrderSubmitter.submitOrder fails: it emits order_failed and throws.
\* handleOrderFailed runs first, up to its await of updateOrder
submitFails(o, message) ==
  /\ ~MicroPending
  /\ pc[o] = "submitting"
  /\ UpdateOrder(o, [orders[o] EXCEPT
                      !.status = IF shouldRetry(orders[o]) THEN "retrying" ELSE "failed",
                      !.last_error = <<message>>],
                  [hist[o] EXCEPT !.submitFailures = @ + 1])
  /\ pc' = [pc EXCEPT ![o] = "fail_c1"]
  /\ dupRetries' = 0
  /\ UNCHANGED <<orderQueue, processingQueue, monitoredOrders, brokerOrders,
                 valEnv, lastCancel>>
  /\ UNCHANGED <<ehVars, wsVars, dpVars, ovVars, osVars, omVars, orVars, tuVars>>

\* the catch block of processOrder, up to its await of updateOrder; the
\* error it catches carries the message handleOrderFailed has just stored
processOrderCatch(o) ==
  /\ pc[o] = "fail_c1"
  /\ UpdateOrder(o, [orders[o] EXCEPT !.status = "failed",
                      !.last_error = <<"Failed to submit order: ">> \o @],
                  hist[o])
  /\ pc' = [pc EXCEPT ![o] = "fail_h2"]
  /\ UNCHANGED <<orderQueue, processingQueue, monitoredOrders, brokerOrders,
                 valEnv, lastCancel, dupRetries>>
  /\ UNCHANGED <<ehVars, wsVars, dpVars, ovVars, osVars, omVars, orVars, tuVars>>

\* the rest of handleOrderFailed: re-enqueue, or emit order_failed
handleOrderFailedRest(o) ==
  /\ pc[o] = "fail_h2"
  /\ IF shouldRetry(orders[o])
       THEN orderQueue' = Append(orderQueue, o) /\ UNCHANGED hist
       ELSE hist' = [hist EXCEPT ![o].failed = @ + 1] /\ UNCHANGED orderQueue
  /\ pc' = [pc EXCEPT ![o] = "fail_c2"]
  /\ UNCHANGED <<orders, alpacaOrderMap, processingQueue, monitoredOrders,
                 brokerOrders, valEnv, lastCancel, dupRetries>>
  /\ UNCHANGED <<ehVars, wsVars, dpVars, ovVars, osVars, omVars, orVars, tuVars>>

\* the rest of the catch block (emit order_failed), and processQueue's
\* finally block
processOrderCatchRest(o) ==
  /\ pc[o] = "fail_c2"
  /\ hist' = [hist EXCEPT ![o].failed = @ + 1]
  /\ processingQueue' = FALSE
  /\ pc' = [pc EXCEPT ![o] = "idle"]
  /\ UNCHANGED <<orders, alpacaOrderMap, orderQueue, monitoredOrders,
                 brokerOrders, valEnv, lastCancel, dupRetries>>
  /\ UNCHANGED <<ehVars, wsVars, dpVars, ovVars, osVars, omVars, orVars, tuVars>>

\* the brokerage statuses that complete an order (handleOrderUpdate)
isTerminalUpdate(status) == status \in TerminalStatuses

stopIfDone_Never(monitored, b, status) == monitored

\* handleTradeUpdate stops monitoring an order that is done
stopIfDone(monitored, b, status) ==
  IF status \in TerminalStatuses THEN monitored \ {b} ELSE monitored

tracked_Any(monitored, b) == TRUE

\* this.monitoredOrders.has(data.order.id)
tracked(monitored, b) == b \in monitored

\* OrderMonitor.handleTradeUpdate for a trade_updates frame about brokerage
\* order b, and ExecutorService.handleOrderUpdate when it is emitted
handleTradeUpdate(b, status) ==
  /\ ~MicroPending
  /\ b \in brokerOrders
  /\ IF tracked(monitoredOrders, b)
       THEN LET o == getOrderByAlpacaOrderId(alpacaOrderMap, orders, b) IN
            /\ IF o = NoId
                 THEN UNCHANGED <<orders, alpacaOrderMap, hist>>
                 ELSE /\ hist[o].updated < MaxUpdates
                      /\ UpdateOrder(o,
                           [orders[o] EXCEPT
                              !.order_response = status,
                              !.status = IF isTerminalUpdate(status) THEN "completed" ELSE @],
                           [hist[o] EXCEPT
                              !.updated = @ + 1,
                              !.completions = IF isTerminalUpdate(status) THEN @ + 1 ELSE @])
            /\ monitoredOrders' = stopIfDone(monitoredOrders, b, status)
       ELSE UNCHANGED <<orders, alpacaOrderMap, hist, monitoredOrders>>
  /\ UNCHANGED <<orderQueue, processingQueue, pc, brokerOrders, valEnv,
                 lastCancel, dupRetries>>
  /\ UNCHANGED <<ehVars, wsVars, dpVars, ovVars, osVars, omVars, orVars, tuVars>>

canCancel_NoIdCheck(order) == order.status \notin {"completed", "failed"}

\* the test of cancelOrder on the record it found
canCancel(order) ==
  ~(order.alpaca_order_id = NoAlpacaId \/ order.status \in {"completed", "failed"})

CancelOutcomes == {"ok", "404", "error"}
NoCancel == [id |-> NoId, called |-> FALSE, result |-> "none"]

\* cancelOrder(orderId); called: submitter.cancelOrder was invoked, and
\* outcome is how the brokerage answered it
cancelOrder(orderId, outcome) ==
  /\ ~MicroPending
  /\ lastCancel = NoCancel
  /\ lastCancel' =
       IF orderId \notin OrderIds
         THEN [id |-> orderId, called |-> FALSE, result |-> "throw: Order not found"]
       ELSE IF ~canCancel(orders[orderId])
         THEN [id |-> orderId, called |-> FALSE,
               result |-> "throw: Order cannot be canceled"]
       ELSE [id |-> orderId, called |-> TRUE,
             result |-> IF outcome = "error" THEN "throw: Failed to cancel order"
                                              ELSE "true"]
  /\ UNCHANGED <<orders, alpacaOrderMap, orderQueue, processingQueue, pc,
                 monitoredOrders, brokerOrders, hist, valEnv, dupRetries>>
  /\ UNCHANGED <<ehVars, wsVars, dpVars, ovVars, osVars, omVars, orVars, tuVars>>

\* the promise of cancelOrder settles: its caller has the result
cancelOrderReturns ==
  /\ lastCancel # NoCancel
  /\ lastCancel' = NoCancel
  /\ UNCHANGED <<orders, alpacaOrderMap, orderQueue, processingQueue, pc,
                 monitoredOrders, brokerOrders, hist, valEnv, dupRetries>>
  /\ UNCHANGED <<ehVars, wsVars, dpVars, ovVars, osVars, omVars, orVars, tuVars>>

ExecInit ==
  /\ orders = <<>>
  /\ alpacaOrderMap = <<>>
  /\ orderQueue = <<>>
  /\ processingQueue = FALSE
  /\ pc = <<>>
  /\ monitoredOrders = {}
  /\ brokerOrders = {}
  /\ hist = <<>>
  /\ valEnv = NoValEnv
  /\ lastCancel = NoCancel
  /\ dupRetries = 0

(***************************************************************************)
(* ErrorHandler (reconnection coordinator of one stream)                   *)
(*                                                                         *)
(* reconnectTimer is "null", "pending" (a timeout that will fire) or       *)
(* "dead" (a handle whose timeout has fired or was cleared: the code       *)
(* clears the timeout without forgetting the handle).                      *)
(***************************************************************************)
EHConfigs ==
  [maxReconnectAttempts : 1..MaxCfgAttempts, reconnectDelay : {1, 2},
   maxReconnectDelay : {4, 5}]

NoEHHist == [giveUps |-> 0, reconnects |-> 0, delays |-> <<>>]

EHInitIdle ==
  /\ reconnectAttempts = 0
  /\ reconnectTimer = "null"
  /\ ehConfig = [maxReconnectAttempts |-> 1, reconnectDelay |-> 1, maxReconnectDelay |-> 4]
  /\ ehHist = NoEHHist

EHInit ==
  /\ reconnectAttempts = 0
  /\ reconnectTimer = "null"
  /\ ehConfig \in EHConfigs
  /\ ehHist = NoEHHist

RECURSIVE Pow2(_)
Pow2(n) == IF n = 0 THEN 1 ELSE 2 * Pow2(n - 1)

Min(a, b) == IF a < b THEN a ELSE b

\* the delay of the reconnect scheduled when the counter reads attempts
reconnectDelayFor_Uncapped(attempts, config) == config.reconnectDelay * Pow2(attempts)

reconnectDelayFor(attempts, config) ==
  Min(config.reconnectDelay * Pow2(attempts), config.maxReconnectDelay)

attemptsLeft_OffByOne(attempts, config) == attempts <= config.maxReconnectAttempts

\* the test of scheduleReconnect
attemptsLeft(attempts, config) == attempts < config.maxReconnectAttempts

clearTimeout(timer) == IF timer = "null" THEN "null" ELSE "dead"

scheduleReconnect ==
  IF attemptsLeft(reconnectAttempts, ehConfig)
    THEN /\ reconnectAttempts' = reconnectAttempts + 1
         /\ reconnectTimer' = "pending"
         /\ ehHist' = [ehHist EXCEPT
                         !.delays = Append(@, reconnectDelayFor(reconnectAttempts + 1, ehConfig))]
    ELSE /\ ehHist.giveUps < MaxGiveUps
         /\ reconnectTimer' = clearTimeout(reconnectTimer)
         /\ ehHist' = [ehHist EXCEPT !.giveUps = @ + 1]
         /\ UNCHANGED reconnectAttempts

\* handleError(error): every class of error ends in scheduleReconnect
handleError ==
  /\ scheduleReconnect
  /\ UNCHANGED ehConfig
  /\ UNCHANGED <<execVars, wsVars, dpVars, ovVars, osVars, omVars, orVars, tuVars>>

handleDisconnect ==
  /\ scheduleReconnect
  /\ UNCHANGED ehConfig
  /\ UNCHANGED <<execVars, wsVars, dpVars, ovVars, osVars, omVars, orVars, tuVars>>

\* the callback of the timeout set by scheduleReconnect: emit reconnect
emitReconnect ==
  /\ reconnectTimer = "pending"
  /\ reconnectTimer' = "dead"
  /\ ehHist' = [ehHist EXCEPT !.reconnects = @ + 1]
  /\ UNCHANGED <<reconnectAttempts, ehConfig>>

\* the timeout set by scheduleReconnect fires (no listener attached)
reconnectTimerFires ==
  /\ emitReconnect
  /\ UNCHANGED <<execVars, wsVars, dpVars, ovVars, osVars, omVars, orVars, tuVars>>

\* the body of resetReconnectAttempts; the history since the last reset
\* starts anew
resetAttempts ==
  /\ reconnectAttempts' = 0
  /\ reconnectTimer' = "null"
  /\ ehHist' = NoEHHist
  /\ UNCHANGED ehConfig

\* resetReconnectAttempts()
resetReconnectAttempts ==
  /\ resetAttempts
  /\ UNCHANGED <<execVars, wsVars, dpVars, ovVars, osVars, omVars, orVars, tuVars>>

\* cleanup()
cleanup ==
  /\ reconnectTimer' = clearTimeout(reconnectTimer)
  /\ UNCHANGED <<reconnectAttempts, ehConfig, ehHist>>
  /\ UNCHANGED <<execVars, wsVars, dpVars, ovVars, osVars, omVars, orVars, tuVars>>

NextEH ==
  \/ handleError
  \/ handleDisconnect
  \/ reconnectTimerFires
  \/ resetReconnectAttempts
  \/ cleanup

(***************************************************************************)
(* WebSocketManager, market-data stream (the trading stream runs the same  *)
(* code on tradingWS / tradingState / tradingErrorHandler).                *)
(*                                                                         *)
(* A socket is a slot of sockets: rs is its readyState, subs the symbols   *)
(* a subscribe frame was sent for on it.  A closed socket the manager no   *)
(* longer refers to is collected (its slot reads NONE).  The ErrorHandler  *)
(* variables are those of dataErrorHandler; its 'reconnect' and            *)
(* 'maxReconnectAttemptsReached' listeners run inside the step that emits. *)
(* Frames of type t, q and b go to DataProcessor.addMessage, modelled      *)
(* below; on the connection they act as any other well-formed frame.       *)
(***************************************************************************)
Slots == 1..MaxSockets

Symbols == {"AAPL"}

ConnectionStates == {"disconnected", "connecting", "connected", "authenticated", "error"}

NoSocket == [rs |-> "NONE", subs |-> {}]

NewSocket == [rs |-> "CONNECTING", subs |-> {}]

\* now - lastMessageTime against config.websocket.healthCheckTimeout
Ages == <<"within", "at", "beyond">>

AgeIndex(a) == CHOOSE i \in DOMAIN Ages : Ages[i] = a

\* frames by what handleDataMessage makes of them
MessageKinds == {"success", "unknown", "error", "unparseable"}

WSInit ==
  /\ dataState = "disconnected"
  /\ dataWS = 0
  /\ sockets = [s \in Slots |-> NoSocket]
  /\ emitting = 0
  /\ subscriptions = {}
  /\ msgAge = "within"
  /\ wsHist = [gaveUp |-> FALSE, frame |-> "none"]

\* the step handles no frame
noFrame == wsHist' = [wsHist EXCEPT !.frame = "none"]

\* this.dataWS && this.dataWS.readyState === 1
dataSocketOpen == dataWS # 0 /\ sockets[dataWS].rs = "OPEN"

\* no socket is between the 'error' and the 'close' it emits in one go
Quiet == emitting = 0

\* the 'maxReconnectAttemptsReached' listener runs iff scheduleReconnect
\* finds no attempt left
givesUp == ~attemptsLeft(reconnectAttempts, ehConfig)

\* what a call of dataErrorHandler.handleError / handleDisconnect made by
\* the manager while the state reads st does to coordinator and state
coordinatorReport(st) ==
  /\ scheduleReconnect
  /\ UNCHANGED ehConfig
  /\ dataState' = IF givesUp THEN "error" ELSE st

\* a call of dataErrorHandler.handleError / handleDisconnect made by the
\* manager while the state reads st
coordinatorCall(st) ==
  /\ coordinatorReport(st)
  /\ wsHist' = [gaveUp |-> wsHist.gaveUp \/ givesUp, frame |-> "none"]

\* the slot that keeps a socket that closed
closedSocket(s) == IF s = dataWS THEN [sockets[s] EXCEPT !.rs = "CLOSED"] ELSE NoSocket

\* the sockets left once connectDataWebSocket overwrites this.dataWS
keptSockets ==
  [t \in Slots |-> IF t = dataWS /\ sockets[t].rs = "CLOSED" THEN NoSocket ELSE sockets[t]]

\* the body of connectDataWebSocket
connectBody ==
  IF dataSocketOpen
    THEN /\ dataState' = "connected"
         /\ UNCHANGED <<dataWS, sockets>>
    ELSE /\ \E s \in Slots : keptSockets[s].rs = "NONE"
         /\ LET s == CHOOSE t \in Slots :
                       /\ keptSockets[t].rs = "NONE"
                       /\ \A u \in Slots : keptSockets[u].rs = "NONE" => t <= u
            IN /\ dataWS' = s
               /\ sockets' = [keptSockets EXCEPT ![s] = NewSocket]
         /\ dataState' = "connecting"

\* connectDataWebSocket() called from outside the manager
connectDataWebSocket ==
  /\ Quiet
  /\ connectBody
  /\ wsHist' = [gaveUp |-> FALSE, frame |-> "none"]
  /\ UNCHANGED <<emitting, subscriptions, msgAge>>
  /\ UNCHANGED <<ehVars, execVars, dpVars, ovVars, osVars, omVars, orVars, tuVars>>

\* the reconnect timer fires: the 'reconnect' listener connects
reconnectFires ==
  /\ Quiet
  /\ emitReconnect
  /\ connectBody
  /\ noFrame
  /\ UNCHANGED <<emitting, subscriptions, msgAge>>
  /\ UNCHANGED <<execVars, dpVars, ovVars, osVars, omVars, orVars, tuVars>>

\* 'open' of socket s
socketOpens(s) ==
  /\ Quiet
  /\ sockets[s].rs = "CONNECTING"
  /\ sockets' = [sockets EXCEPT ![s].rs = "OPEN"]
  /\ resetAttempts
  /\ dataState' = "connected"
  /\ noFrame
  /\ UNCHANGED <<dataWS, emitting, subscriptions, msgAge>>
  /\ UNCHANGED <<execVars, dpVars, ovVars, osVars, omVars, orVars, tuVars>>

\* the connection of socket s fails: 'error', with 'close' to follow at once
connectionFails(s) ==
  /\ Quiet
  /\ sockets[s].rs = "CONNECTING"
  /\ sockets' = [sockets EXCEPT ![s].rs = "CLOSING"]
  /\ emitting' = s
  /\ coordinatorCall(dataState)
  /\ msgAge' = "within"
  /\ UNCHANGED <<dataWS, subscriptions>>
  /\ UNCHANGED <<execVars, dpVars, ovVars, osVars, omVars, orVars, tuVars>>

\* 'error' of the open socket s
socketErrors(s) ==
  /\ Quiet
  /\ sockets[s].rs = "OPEN"
  /\ sockets' = [sockets EXCEPT ![s].rs = "CLOSING"]
  /\ coordinatorCall(dataState)
  /\ msgAge' = "within"
  /\ UNCHANGED <<dataWS, emitting, subscriptions>>
  /\ UNCHANGED <<execVars, dpVars, ovVars, osVars, omVars, orVars, tuVars>>

\* the closing handshake of the open socket s starts; no event yet
socketStartsClosing(s) ==
  /\ Quiet
  /\ sockets[s].rs = "OPEN"
  /\ sockets' = [sockets EXCEPT ![s].rs = "CLOSING"]
  /\ noFrame
  /\ UNCHANGED <<dataState, dataWS, emitting, subscriptions, msgAge>>
  /\ UNCHANGED <<ehVars, execVars, dpVars, ovVars, osVars, omVars, orVars, tuVars>>

\* 'close' of socket s
socketCloses(s) ==
  /\ emitting \in {0, s}
  /\ sockets[s].rs \in {"OPEN", "CLOSING"}
  /\ sockets' = [sockets EXCEPT ![s] = closedSocket(s)]
  /\ emitting' = 0
  /\ coordinatorCall("disconnected")
  /\ UNCHANGED <<dataWS, subscriptions, msgAge>>
  /\ UNCHANGED <<execVars, dpVars, ovVars, osVars, omVars, orVars, tuVars>>

reportsError_Any(kind) == TRUE

\* the frames handleDataMessage hands to dataErrorHandler.handleError: an
\* 'error' message, and one JSON.parse throws on
reportsError(kind) == kind \in {"error", "unparseable"}

\* 'message' of socket s: handleDataMessage, then updateMetrics
socketMessage(s, kind) ==
  /\ Quiet
  /\ sockets[s].rs = "OPEN"
  /\ IF reportsError(kind)
       THEN /\ coordinatorReport(dataState)
            /\ wsHist' = [gaveUp |-> wsHist.gaveUp \/ givesUp, frame |-> kind]
       ELSE /\ UNCHANGED <<ehVars, dataState>>
            /\ wsHist' = [wsHist EXCEPT !.frame = kind]
  /\ msgAge' = "within"
  /\ UNCHANGED <<dataWS, sockets, emitting, subscriptions>>
  /\ UNCHANGED <<execVars, dpVars, ovVars, osVars, omVars, orVars, tuVars>>

\* time passes without a frame or an error
timePasses(age) ==
  /\ Quiet
  /\ AgeIndex(age) > AgeIndex(msgAge)
  /\ msgAge' = age
  /\ noFrame
  /\ UNCHANGED <<dataState, dataWS, sockets, emitting, subscriptions>>
  /\ UNCHANGED <<ehVars, execVars, dpVars, ovVars, osVars, omVars, orVars, tuVars>>

\* the test of checkHealth: lastMessageTime < now - healthCheckTimeout
timedOut(st, age) == st = "connected" /\ age = "beyond"

\* the health-check interval fires
checkHealth ==
  /\ Quiet
  /\ IF timedOut(dataState, msgAge)
       THEN coordinatorCall(dataState)
       ELSE noFrame /\ UNCHANGED <<ehVars, dataState>>
  /\ UNCHANGED <<dataWS, sockets, emitting, subscriptions, msgAge>>
  /\ UNCHANGED <<execVars, dpVars, ovVars, osVars, omVars, orVars, tuVars>>

\* subscribeToSymbols(symbols)
subscribeToSymbols(symbols) ==
  /\ Quiet
  /\ IF dataSocketOpen
       THEN /\ sockets' = [sockets EXCEPT ![dataWS].subs = @ \cup symbols]
            /\ subscriptions' = subscriptions \cup symbols
       ELSE UNCHANGED <<sockets, subscriptions>>
  /\ noFrame
  /\ UNCHANGED <<dataState, dataWS, emitting, msgAge>>
  /\ UNCHANGED <<ehVars, execVars, dpVars, ovVars, osVars, omVars, orVars, tuVars>>

\* unsubscribeFromSymbol(symbol)
unsubscribeFromSymbol(symbol) ==
  /\ Quiet
  /\ IF dataSocketOpen
       THEN /\ sockets' = [sockets EXCEPT ![dataWS].subs = @ \ {symbol}]
            /\ subscriptions' = subscriptions \ {symbol}
       ELSE UNCHANGED <<sockets, subscriptions>>
  /\ noFrame
  /\ UNCHANGED <<dataState, dataWS, emitting, msgAge>>
  /\ UNCHANGED <<ehVars, execVars, dpVars, ovVars, osVars, omVars, orVars, tuVars>>

NextWS ==
  \/ connectDataWebSocket
  \/ reconnectFires
  \/ \E s \in Slots : socketOpens(s)
  \/ \E s \in Slots : connectionFails(s)
  \/ \E s \in Slots : socketErrors(s)
  \/ \E s \in Slots : socketStartsClosing(s)
  \/ \E s \in Slots : socketCloses(s)
  \/ \E s \in Slots, kind \in MessageKinds : socketMessage(s, kind)
  \/ \E age \in {"at", "beyond"} : timePasses(age)
  \/ checkHealth
  \/ \E symbols \in (SUBSET Symbols) \ {{}} : subscribeToSymbols(symbols)
  \/ \E symbol \in Symbols : unsubscribeFromSymbol(symbol)

(***************************************************************************)
(* DataProcessor (validator / batcher).  Numbers are in units in which the *)
(* validation bounds read as below; a missing symbol or timestamp is "".   *)
(***************************************************************************)
ValidationConfig ==
  [minPrice |-> 1, maxPrice |-> 2, minVolume |-> 1, maxVolume |-> 2, maxSpread |-> 1]

BatchConfigs == [maxBatchSize : {1, 2}, maxQueueSize : 1..MaxQueueSize]

Names == {"", "AAPL"}

Timestamps == {"", "2024-03-28T12:00:00Z"}

Quotes ==
  [symbol : Names, timestamp : Timestamps, bidPrice : {0, 1, 3}, askPrice : {1, 3},
   spread : {0, 2}]

Trades == [symbol : Names, timestamp : Timestamps, price : {0, 1, 3}, size : {0, 1, 3}]

Bars ==
  [symbol : Names, timestamp : Timestamps, open : {1, 3}, high : {1, 2},
   low : {0, 1, 2}, close : {1}, volume : {0, 1, 3}]

\* the arguments of addMessage
Messages ==
  [type : {"quote"}, data : Quotes] \cup [type : {"trade"}, data : Trades]
    \cup [type : {"bar"}, data : Bars]

outOfRange(x, lo, hi) == x < lo \/ x > hi

missingField(data) == data.symbol = "" \/ data.timestamp = ""

validateQuote(quote, v) ==
  /\ ~missingField(quote)
  /\ ~outOfRange(quote.bidPrice, v.minPrice, v.maxPrice)
  /\ ~outOfRange(quote.askPrice, v.minPrice, v.maxPrice)
  /\ ~(quote.spread > v.maxSpread)

validateTrade_NoSize(trade, v) ==
  /\ ~missingField(trade)
  /\ ~outOfRange(trade.price, v.minPrice, v.maxPrice)

validateTrade(trade, v) ==
  /\ ~missingField(trade)
  /\ ~outOfRange(trade.price, v.minPrice, v.maxPrice)
  /\ ~outOfRange(trade.size, v.minVolume, v.maxVolume)

validateBar(bar, v) ==
  /\ ~missingField(bar)
  /\ ~outOfRange(bar.open, v.minPrice, v.maxPrice)
  /\ ~outOfRange(bar.high, v.minPrice, v.maxPrice)
  /\ ~outOfRange(bar.low, v.minPrice, v.maxPrice)
  /\ ~outOfRange(bar.close, v.minPrice, v.maxPrice)
  /\ ~outOfRange(bar.volume, v.minVolume, v.maxVolume)

validateMessage(m, v) ==
  CASE m.type = "quote" -> validateQuote(m.data, v)
    [] m.type = "trade" -> validateTrade(m.data, v)
    [] m.type = "bar" -> validateBar(m.data, v)
    [] OTHER -> FALSE

\* Array.prototype.slice(-n): the last n entries, all of them when n = 0
sliceLast(q, n) ==
  IF n = 0 \/ Len(q) <= n THEN q ELSE SubSeq(q, Len(q) - n + 1, Len(q))

\* the queue after the overflow test of addMessage
afterOverflow(q, config) ==
  IF Len(q) >= config.maxQueueSize THEN sliceLast(q, config.maxQueueSize) ELSE q

\* the entries splice(0, batchSize) takes
batchOf(q, config) == SubSeq(q, 1, Min(Len(q), config.maxBatchSize))

\* the entries splice(0, batchSize) leaves
restOf(q, config) == SubSeq(q, Min(Len(q), config.maxBatchSize) + 1, Len(q))

DPInit ==
  /\ messageQueue = <<>>
  /\ batchTimer = "active"
  /\ dpConfig \in BatchConfigs
  /\ lastBatch = <<>>
  /\ dpHist = [rejected |-> FALSE, sink |-> "none"]

DPInitIdle ==
  /\ messageQueue = <<>>
  /\ batchTimer = "active"
  /\ dpConfig = [maxBatchSize |-> 1, maxQueueSize |-> 1]
  /\ lastBatch = <<>>
  /\ dpHist = [rejected |-> FALSE, sink |-> "none"]

\* addMessage(type, data)
addMessage(m) ==
  /\ messageQueue' =
       IF validateMessage(m, ValidationConfig)
         THEN Append(afterOverflow(messageQueue, dpConfig), m)
         ELSE afterOverflow(messageQueue, dpConfig)
  /\ lastBatch' = <<>>
  /\ dpHist' = [rejected |-> dpHist.rejected \/ ~validateMessage(m, ValidationConfig),
                sink |-> "none"]
  /\ UNCHANGED <<batchTimer, dpConfig>>
  /\ UNCHANGED <<execVars, ehVars, wsVars, ovVars, osVars, omVars, orVars, tuVars>>

putBack_Discard(batch, rest) == rest

\* messageQueue.unshift(...batch) in the catch block: the batch goes back in
\* front of what splice left
putBack(batch, rest) == batch \o rest

\* what processBatch and processMessages do to the queue; sinkOk: onBatch
\* returns, otherwise it throws and the batch is unshifted
drain(sinkOk) ==
  IF Len(messageQueue) = 0
    THEN /\ lastBatch' = <<>>
         /\ dpHist' = [dpHist EXCEPT !.sink = "none"]
         /\ UNCHANGED messageQueue
    ELSE /\ lastBatch' = batchOf(messageQueue, dpConfig)
         /\ dpHist' = [dpHist EXCEPT !.sink = IF sinkOk THEN "ok" ELSE "failed"]
         /\ messageQueue' =
              IF sinkOk THEN restOf(messageQueue, dpConfig)
              ELSE putBack(batchOf(messageQueue, dpConfig),
                           restOf(messageQueue, dpConfig))

\* the batch interval fires: processBatch()
processBatch(sinkOk) ==
  /\ batchTimer = "active"
  /\ drain(sinkOk)
  /\ UNCHANGED <<batchTimer, dpConfig>>
  /\ UNCHANGED <<execVars, ehVars, wsVars, ovVars, osVars, omVars, orVars, tuVars>>

\* processMessages()
processMessages(sinkOk) ==
  /\ drain(sinkOk)
  /\ UNCHANGED <<batchTimer, dpConfig>>
  /\ UNCHANGED <<execVars, ehVars, wsVars, ovVars, osVars, omVars, orVars, tuVars>>

\* DataProcessor.cleanup()
cleanupProcessor ==
  /\ batchTimer' = "null"
  /\ messageQueue' = <<>>
  /\ lastBatch' = <<>>
  /\ dpHist' = [dpHist EXCEPT !.sink = "none"]
  /\ UNCHANGED dpConfig
  /\ UNCHANGED <<execVars, ehVars, wsVars, ovVars, osVars, omVars, orVars, tuVars>>

NextDP ==
  \/ \E m \in Messages : addMessage(m)
  \/ \E sinkOk \in BOOLEAN : processBatch(sinkOk)
  \/ \E sinkOk \in BOOLEAN : processMessages(sinkOk)
  \/ cleanupProcessor

(***************************************************************************)
(* OrderValidator.validateOrder, called on its own                         *)
(***************************************************************************)
OVRequests ==
  [symbol : {"", "AAPL"}, side : {"", "buy", "sell"},
   type : {"", "market", "limit", "stop", "stop_limit"},
   time_in_force : {"", "day"}, qty : {0, 1, 2}, notional : {0, 2},
   limit_price : {0, 1}, stop_price : {0, 1}, order_class : {"", "bracket"},
   take_profit : BOOLEAN, stop_loss : BOOLEAN]

OVPrices == {1, 2}

\* the answers of the brokerage: a failed account lookup, an account that
\* is not active, a failed quote lookup (price -1), and a quote with an
\* accepted or refused order post
OVEnvs ==
  { [NoValEnv EXCEPT !.account = "error", !.errKind = k] : k \in FetchFailures }
  \cup { [NoValEnv EXCEPT !.account = "INACTIVE", !.buying_power = 2, !.price = 1,
                          !.post = "ok"] }
  \cup { [NoValEnv EXCEPT !.account = "ACTIVE", !.buying_power = bp, !.price = -1,
                          !.post = "ok", !.errKind = k] :
           bp \in BuyingPowers, k \in FetchFailures }
  \cup { [NoValEnv EXCEPT !.account = "ACTIVE", !.buying_power = bp, !.price = p,
                          !.post = "ok"] : bp \in BuyingPowers, p \in OVPrices }
  \cup { [NoValEnv EXCEPT !.account = "ACTIVE", !.buying_power = bp, !.price = p,
                          !.post = "error", !.errKind = k] :
           bp \in BuyingPowers, p \in OVPrices, k \in FetchFailures }

NoResult == [outcome |-> "pending", valid |-> FALSE, errors |-> <<>>]

\* no validateOrder call of its own
OVInitIdle ==
  /\ ovRequest = BaseRequest
  /\ ovEnv = NoValEnv
  /\ ovResult = [NoResult EXCEPT !.outcome = "none"]

\* a call with any request; a request with structural errors returns before
\* the brokerage is asked anything
OVInit ==
  /\ ovRequest \in OVRequests
  /\ ovEnv \in IF Len(structuralErrors(ovRequest)) > 0 THEN {NoValEnv} ELSE OVEnvs
  /\ ovResult = NoResult

\* validateOrder(order) runs to its end
validateOrderCall ==
  /\ ovResult.outcome = "pending"
  /\ ovResult' = validateOrder(ovRequest, ovEnv)
  /\ UNCHANGED <<ovRequest, ovEnv>>
  /\ UNCHANGED <<execVars, ehVars, wsVars, dpVars, osVars, omVars, orVars, tuVars>>

NextOV == validateOrderCall

(***************************************************************************)
(* OrderSubmitter.submitOrder, called on its own                           *)
(***************************************************************************)
\* the client_order_id the request comes with, and the k-th one the
\* submitter generates (`ts_${timestamp}_${uuidv4()}`)
GivenKey == <<"given", 0>>
NewKey(k) == <<"ts", k>>

OSRequests ==
  [symbol : {"AAPL"}, side : {"buy"}, type : {"market", "limit"},
   time_in_force : {"day"}, qty : {0, 2}, notional : {0, 2},
   limit_price : {0, 1}, stop_price : {0}, order_class : {"", "bracket"},
   take_profit : BOOLEAN, stop_loss : BOOLEAN, client_order_id : {GivenKey}]

\* Number.prototype.toString of a field that is set; "" stands for a field
\* the payload does not have
Str(n) == IF n = 0 THEN "" ELSE ToString(n)

prepareAlpacaOrder(orderRequest) ==
  [symbol |-> orderRequest.symbol, side |-> orderRequest.side,
   type |-> orderRequest.type, time_in_force |-> orderRequest.time_in_force,
   client_order_id |-> orderRequest.client_order_id,
   qty |-> Str(orderRequest.qty),
   notional |-> IF orderRequest.qty # 0 THEN "" ELSE Str(orderRequest.notional),
   limit_price |-> Str(orderRequest.limit_price),
   stop_price |-> Str(orderRequest.stop_price),
   order_class |-> orderRequest.order_class,
   take_profit |-> orderRequest.order_class # "" /\ orderRequest.take_profit,
   stop_loss |-> orderRequest.order_class # "" /\ orderRequest.stop_loss]

\* how a post can fail other than for a duplicate client_order_id: a
\* response with data, an axios error without response, another Error
PostFailures == {"data", "neterr", "other"}

failureMessage(kind) ==
  IF kind = "data" THEN "response message"
  ELSE IF kind = "neterr" THEN "Network Error" ELSE "error message"

NoCall == [pc |-> "idle", posted |-> <<>>, events |-> <<>>, thrown |-> <<>>]

OSInitIdle ==
  /\ osRequest = [BaseRequest EXCEPT !.symbol = ""]
  /\ osCall = NoCall

OSInit ==
  /\ osRequest \in OSRequests
  /\ osCall = NoCall

emitted_Silent(events, event) == events

\* this.emit(event, orderId, ...)
emitted(events, event) == Append(events, event)

\* submitOrder(orderId, orderRequest) up to its await of axios.post
submitterCall ==
  /\ osCall.pc = "idle"
  /\ osCall' = [osCall EXCEPT !.pc = "posting",
                              !.posted = <<prepareAlpacaOrder(osRequest)>>]
  /\ UNCHANGED osRequest
  /\ UNCHANGED <<execVars, ehVars, wsVars, dpVars, ovVars, omVars, orVars, tuVars>>

\* the brokerage accepts the order: order_submitted, normal return
postAccepted ==
  /\ osCall.pc = "posting"
  /\ osCall' = [osCall EXCEPT !.pc = "returned",
                              !.events = emitted(@, "order_submitted")]
  /\ UNCHANGED osRequest
  /\ UNCHANGED <<execVars, ehVars, wsVars, dpVars, ovVars, omVars, orVars, tuVars>>

\* the brokerage answers 'client_order_id must be unique': the request gets
\* a new client_order_id and submitOrder calls itself, up to the await of
\* axios.post of that call
postDuplicate ==
  /\ osCall.pc = "posting"
  /\ Len(osCall.posted) < MaxSubmitRequests
  /\ osRequest' = [osRequest EXCEPT !.client_order_id = NewKey(Len(osCall.posted))]
  /\ osCall' = [osCall EXCEPT !.posted = Append(@, prepareAlpacaOrder(osRequest'))]
  /\ UNCHANGED <<execVars, ehVars, wsVars, dpVars, ovVars, omVars, orVars, tuVars>>

\* the post fails otherwise: order_failed, then the error is thrown
postRejected(kind) ==
  /\ osCall.pc = "posting"
  /\ osCall' = [osCall EXCEPT !.pc = "thrown",
                              !.events = emitted(@, "order_failed"),
                              !.thrown = <<"Failed to submit order: ", failureMessage(kind)>>]
  /\ UNCHANGED osRequest
  /\ UNCHANGED <<execVars, ehVars, wsVars, dpVars, ovVars, omVars, orVars, tuVars>>

NextOS ==
  \/ submitterCall
  \/ postAccepted
  \/ postDuplicate
  \/ \E kind \in PostFailures : postRejected(kind)

(***************************************************************************)
(* OrderMonitor's reconnection, beside a stream whose reconnection is run  *)
(* by an ErrorHandler; both streams see the same opens and closes          *)
(***************************************************************************)
RECURSIVE Pow(_, _)
Pow(b, n) == IF n = 0 THEN 1 ELSE b * Pow(b, n - 1)

\* reconnectInterval * Math.pow(1.5, reconnectAttempts - 1), as a fraction
monitorDelayFor(attempts) ==
  [num |-> MonitorReconnectInterval * Pow(3, attempts - 1), den |-> Pow(2, attempts - 1)]

\* the default configuration of the streams and one with the monitor's
\* number of attempts, each with a low and a high cap
RCConfigs ==
  [maxReconnectAttempts : {5, MonitorMaxReconnectAttempts},
   reconnectDelay : {MonitorReconnectInterval}, maxReconnectDelay : {5000, 60000}]

NoOMHist == [delays |-> <<>>, giveUps |-> 0]

OMInitIdle ==
  /\ omReconnectAttempts = 0
  /\ omSocket = "none"
  /\ omTimer = "null"
  /\ omHist = NoOMHist
  /\ rcSocket = "none"

\* both constructors have asked for a connection
OMInit ==
  /\ omReconnectAttempts = 0
  /\ omSocket = "connecting"
  /\ omTimer = "null"
  /\ omHist = NoOMHist
  /\ rcSocket = "connecting"

\* OrderMonitor.handleOpen; the history since the last open starts anew
monitorHandleOpen ==
  /\ omSocket' = "open"
  /\ omReconnectAttempts' = 0
  /\ omHist' = NoOMHist
  /\ UNCHANGED omTimer

\* OrderMonitor.handleClose and reconnect
monitorHandleClose ==
  /\ omSocket' = "closed"
  /\ IF omReconnectAttempts >= MonitorMaxReconnectAttempts
       THEN /\ omHist' = [omHist EXCEPT !.giveUps = @ + 1]
            /\ UNCHANGED <<omReconnectAttempts, omTimer>>
       ELSE /\ omReconnectAttempts' = omReconnectAttempts + 1
            /\ omTimer' = "pending"
            /\ omHist' = [omHist EXCEPT
                            !.delays = Append(@, monitorDelayFor(omReconnectAttempts + 1))]

\* both sockets open: handleOpen of the monitor, and the open handler of
\* the other stream, which resets its ErrorHandler
streamsOpen ==
  /\ omSocket = "connecting" /\ rcSocket = "connecting"
  /\ monitorHandleOpen
  /\ rcSocket' = "open"
  /\ resetAttempts
  /\ UNCHANGED <<execVars, wsVars, dpVars, ovVars, osVars, orVars, tuVars>>

\* both sockets close: handleClose of the monitor, and the close handler of
\* the other stream, which calls handleDisconnect of its ErrorHandler
streamsClose ==
  /\ omSocket \in {"connecting", "open"} /\ rcSocket \in {"connecting", "open"}
  /\ monitorHandleClose
  /\ rcSocket' = "closed"
  /\ scheduleReconnect
  /\ UNCHANGED ehConfig
  /\ UNCHANGED <<execVars, wsVars, dpVars, ovVars, osVars, orVars, tuVars>>

\* the timeout set by OrderMonitor.reconnect fires: connect()
monitorTimerFires ==
  /\ omTimer = "pending"
  /\ omTimer' = "null"
  /\ omSocket' = "connecting"
  /\ UNCHANGED <<omReconnectAttempts, omHist, rcSocket>>
  /\ UNCHANGED <<execVars, ehVars, wsVars, dpVars, ovVars, osVars, orVars, tuVars>>

\* the timeout set by scheduleReconnect fires: the reconnect listener of
\* the other stream connects again
coordinatorTimerFires ==
  /\ emitReconnect
  /\ rcSocket' = "connecting"
  /\ UNCHANGED <<omReconnectAttempts, omSocket, omTimer, omHist>>
  /\ UNCHANGED <<execVars, wsVars, dpVars, ovVars, osVars, orVars, tuVars>>

NextOM ==
  \/ streamsOpen
  \/ streamsClose
  \/ monitorTimerFires
  \/ coordinatorTimerFires

(***************************************************************************)
(* OrderRepository, used on its own.  A record is reduced to its brokerage *)
(* id.  saveOrder is called for new records, and the brokerage gives an id *)
(* to one record only.                                                     *)
(***************************************************************************)
RepoIds == {1, 2}
RepoAlpacaIds == {BrokerId(1), BrokerId(2)}

NoRepoCall == [op |-> "none", id |-> NoId, from |-> NoAlpacaId, to |-> NoAlpacaId,
               aliased |-> FALSE]

ORInit ==
  /\ repoOrders = <<>>
  /\ repoIndex = <<>>
  /\ repoLast = NoRepoCall

\* no other stored record has brokerage id a
unusedElsewhere(id, a) ==
  \A other \in DOMAIN repoOrders \ {id} : repoOrders[other].alpaca_order_id # a

\* saveOrder(order)
repoSaveOrder(id, a) ==
  /\ id \notin DOMAIN repoOrders
  /\ unusedElsewhere(id, a)
  /\ repoOrders' = MapPut(repoOrders, id, [alpaca_order_id |-> a])
  /\ repoIndex' = repoSaveOrderIndex(repoIndex, [alpaca_order_id |-> a], id)
  /\ repoLast' = [NoRepoCall EXCEPT !.op = "save", !.id = id, !.to = a]
  /\ UNCHANGED <<execVars, ehVars, wsVars, dpVars, ovVars, osVars, omVars, tuVars>>

\* updateOrder(order) of a record that exists. aliased: order is the object
\* getOrderById returned, with its brokerage id assigned by the caller, so
\* that this.orders.get(order.id) is order itself; otherwise order is an
\* object of its own
repoUpdateOrder(id, a, aliased) ==
  /\ id \in DOMAIN repoOrders
  /\ unusedElsewhere(id, a)
  /\ LET order == [alpaca_order_id |-> a]
         existingOrder == IF aliased THEN order ELSE repoOrders[id]
     IN /\ repoIndex' = repoUpdateOrderIndex(repoIndex, existingOrder, order, id)
        /\ repoOrders' = MapPut(repoOrders, id, order)
  /\ repoLast' = [op |-> "update", id |-> id, from |-> repoOrders[id].alpaca_order_id,
                  to |-> a, aliased |-> aliased]
  /\ UNCHANGED <<execVars, ehVars, wsVars, dpVars, ovVars, osVars, omVars, tuVars>>

\* deleteOrder(orderId) of a record that exists
repoDeleteOrder(id) ==
  /\ id \in DOMAIN repoOrders
  /\ repoIndex' = IF repoOrders[id].alpaca_order_id # NoAlpacaId
                    THEN MapDelete(repoIndex, repoOrders[id].alpaca_order_id)
                    ELSE repoIndex
  /\ repoOrders' = MapDelete(repoOrders, id)
  /\ repoLast' = [NoRepoCall EXCEPT !.op = "delete", !.id = id,
                                    !.from = repoOrders[id].alpaca_order_id]
  /\ UNCHANGED <<execVars, ehVars, wsVars, dpVars, ovVars, osVars, omVars, tuVars>>

NextOR ==
  \/ \E id \in RepoIds, a \in RepoAlpacaIds \cup {NoAlpacaId} : repoSaveOrder(id, a)
  \/ \E id \in RepoIds, a \in RepoAlpacaIds \cup {NoAlpacaId}, aliased \in BOOLEAN :
       repoUpdateOrder(id, a, aliased)
  \/ \E id \in RepoIds : repoDeleteOrder(id)

(***************************************************************************)
(* Trade updates of the brokerage against the registration of the order    *)
(* with the monitor.  An order is at "submitting" (posted), "accepted"     *)
(* (the brokerage has created it, handleOrderSubmitted has not yet         *)
(* registered it) or "registered".  The brokerage sends each update once,  *)
(* over the socket the monitor has at that moment.                         *)
(***************************************************************************)
TUOrderIds == 1..MaxOrders

TUInitIdle ==
  /\ tuOrders = <<>>
  /\ tuMonitored = {}
  /\ tuSocket = "none"

TUInit ==
  /\ tuOrders = [o \in TUOrderIds |->
                   [pc |-> "submitting", status |-> "submitting", reported |-> "none",
                    alpaca_order_id |-> NoAlpacaId]]
  /\ tuMonitored = {}
  /\ tuSocket = "connecting"

\* the brokerage creates the order the submitter posted
tuBrokerAccepts(o) ==
  /\ tuOrders[o].pc = "submitting"
  /\ tuOrders' = [tuOrders EXCEPT ![o].pc = "accepted"]
  /\ UNCHANGED <<tuMonitored, tuSocket>>
  /\ UNCHANGED <<execVars, ehVars, wsVars, dpVars, ovVars, osVars, omVars, orVars>>

\* handleOrderSubmitted: the record gets status monitoring and the
\* brokerage id, then monitorOrder registers it
tuHandleOrderSubmitted(o) ==
  /\ tuOrders[o].pc = "accepted"
  /\ tuOrders' = [tuOrders EXCEPT ![o].pc = "registered", ![o].status = "monitoring",
                                  ![o].alpaca_order_id = BrokerId(o)]
  /\ tuMonitored' = monitorOrder(tuMonitored, tuOrders'[o])
  /\ UNCHANGED tuSocket
  /\ UNCHANGED <<execVars, ehVars, wsVars, dpVars, ovVars, osVars, omVars, orVars>>

\* the brokerage sends a trade update for an order it has and has not
\* reported done; with the socket open handleTradeUpdate and, for a
\* tracked id, handleOrderUpdate run, otherwise the frame reaches no one
tuBrokerReports(o, status) ==
  /\ tuOrders[o].pc \in {"accepted", "registered"}
  /\ tuOrders[o].reported \notin TerminalStatuses
  /\ IF tuSocket = "open" /\ tracked(tuMonitored, BrokerId(o))
       THEN /\ tuOrders' = [tuOrders EXCEPT
                              ![o].reported = status,
                              ![o].status = IF isTerminalUpdate(status) THEN "completed" ELSE @]
            /\ tuMonitored' = stopIfDone(tuMonitored, BrokerId(o), status)
       ELSE /\ tuOrders' = [tuOrders EXCEPT ![o].reported = status]
            /\ UNCHANGED tuMonitored
  /\ UNCHANGED tuSocket
  /\ UNCHANGED <<execVars, ehVars, wsVars, dpVars, ovVars, osVars, omVars, orVars>>

\* the monitor's socket closes: handleClose, reconnect scheduled
tuSocketCloses ==
  /\ tuSocket = "open"
  /\ tuSocket' = "reconnecting"
  /\ UNCHANGED <<tuOrders, tuMonitored>>
  /\ UNCHANGED <<execVars, ehVars, wsVars, dpVars, ovVars, osVars, omVars, orVars>>

\* handleOpen: the socket the monitor created opens, authenticates and
\* subscribes to the trade updates
tuSocketOpens ==
  /\ tuSocket \in {"connecting", "reconnecting"}
  /\ tuSocket' = "open"
  /\ UNCHANGED <<tuOrders, tuMonitored>>
  /\ UNCHANGED <<execVars, ehVars, wsVars, dpVars, ovVars, osVars, omVars, orVars>>

NextTU ==
  \/ \E o \in TUOrderIds : tuBrokerAccepts(o)
  \/ \E o \in TUOrderIds : tuHandleOrderSubmitted(o)
  \/ \E o \in TUOrderIds, status \in UpdateStatuses : tuBrokerReports(o, status)
  \/ tuSocketCloses
  \/ tuSocketOpens

Init == ExecInit /\ EHInitIdle /\ WSInit /\ DPInitIdle /\ OVInitIdle /\ OSInitIdle /\ OMInitIdle /\ ORInit /\ TUInitIdle

Next ==
  \/ \E r \in Requests : submitOrder(r)
  \/ \E env \in ValEnvs : processQueue(env)
  \/ \E o \in OrderIds : validationReturns(o)
  \/ \E o \in OrderIds : brokerAccepts(o)
  \/ \E o \in OrderIds : submitSucceeds(o)
  \/ \E o \in OrderIds : handleOrderSubmittedRest(o)
  \/ \E o \in OrderIds : submitDuplicate(o)
  \/ \E o \in OrderIds, m \in SubmitErrors : submitFails(o, m)
  \/ \E o \in OrderIds : processOrderCatch(o)
  \/ \E o \in OrderIds : handleOrderFailedRest(o)
  \/ \E o \in OrderIds : processOrderCatchRest(o)
  \/ \E b \in brokerOrders, st \in UpdateStatuses : handleTradeUpdate(b, st)
  \/ \E id \in 1..(MaxOrders + 1), out \in CancelOutcomes : cancelOrder(id, out)
  \/ cancelOrderReturns

Spec == Init /\ [][Next]_vars

\* the executor with queue ticks that keep occurring, validator and
\* submitter calls that return or throw, and continuations that run
SpecLive ==
  /\ Init /\ [][Next]_vars
  /\ SF_vars(\E env \in ValEnvs : processQueue(env))
  /\ WF_vars(\E o \in OrderIds : validationReturns(o))
  /\ SF_vars(\E o \in OrderIds :
               brokerAccepts(o) \/ submitDuplicate(o)
               \/ \E m \in SubmitErrors : submitFails(o, m))
  /\ WF_vars(\E o \in OrderIds : submitSucceeds(o))
  /\ WF_vars(\E o \in OrderIds : handleOrderSubmittedRest(o))
  /\ WF_vars(\E o \in OrderIds : processOrderCatch(o))
  /\ WF_vars(\E o \in OrderIds : handleOrderFailedRest(o))
  /\ WF_vars(\E o \in OrderIds : processOrderCatchRest(o))
  /\ WF_vars(cancelOrderReturns)

InitEH == ExecInit /\ EHInit /\ WSInit /\ DPInitIdle /\ OVInitIdle /\ OSInitIdle /\ OMInitIdle /\ ORInit /\ TUInitIdle

SpecEH == InitEH /\ [][NextEH]_vars

\* the ErrorHandler configs of the stream model
WSConfigs == { c \in EHConfigs : c.reconnectDelay = 1 /\ c.maxReconnectDelay = 4 }

InitWS ==
  /\ ExecInit
  /\ reconnectAttempts = 0
  /\ reconnectTimer = "null"
  /\ ehConfig \in WSConfigs
  /\ ehHist = NoEHHist
  /\ WSInit
  /\ DPInitIdle
  /\ OVInitIdle
  /\ OSInitIdle
  /\ OMInitIdle
  /\ ORInit
  /\ TUInitIdle

SpecWS == InitWS /\ [][NextWS]_vars

InitDP == ExecInit /\ EHInitIdle /\ WSInit /\ DPInit /\ OVInitIdle /\ OSInitIdle /\ OMInitIdle /\ ORInit /\ TUInitIdle

SpecDP == InitDP /\ [][NextDP]_vars

InitOV == ExecInit /\ EHInitIdle /\ WSInit /\ DPInitIdle /\ OVInit /\ OSInitIdle /\ OMInitIdle /\ ORInit /\ TUInitIdle

SpecOV == InitOV /\ [][NextOV]_vars

InitOS == ExecInit /\ EHInitIdle /\ WSInit /\ DPInitIdle /\ OVInitIdle /\ OSInit /\ OMInitIdle /\ ORInit /\ TUInitIdle

SpecOS == InitOS /\ [][NextOS]_vars

InitOM ==
  /\ ExecInit
  /\ reconnectAttempts = 0
  /\ reconnectTimer = "null"
  /\ ehConfig \in RCConfigs
  /\ ehHist = NoEHHist
  /\ WSInit
  /\ DPInitIdle
  /\ OVInitIdle
  /\ OSInitIdle
  /\ OMInit
  /\ ORInit
  /\ TUInitIdle

SpecOM == InitOM /\ [][NextOM]_vars

InitOR ==
  /\ ExecInit /\ EHInitIdle /\ WSInit /\ DPInitIdle /\ OVInitIdle /\ OSInitIdle
  /\ OMInitIdle /\ ORInit /\ TUInitIdle

SpecOR == InitOR /\ [][NextOR]_vars

InitTU ==
  /\ ExecInit /\ EHInitIdle /\ WSInit /\ DPInitIdle /\ OVInitIdle /\ OSInitIdle
  /\ OMInitIdle /\ ORInit /\ TUInit

\* every response of the brokerage is handled and a socket that is
\* connecting opens
SpecTU ==
  /\ InitTU /\ [][NextTU]_vars
  /\ \A o \in TUOrderIds : WF_vars(tuHandleOrderSubmitted(o))
  /\ WF_vars(tuSocketOpens)

\* the executions of the stream in which timers fire and no socket lasts:
\* each one fails to connect, errors or closes
SpecWSFailing ==
  /\ InitWS
  /\ [][NextWS]_vars
  /\ WF_vars(reconnectFires)
  /\ \A s \in Slots : WF_vars(connectionFails(s) \/ socketErrors(s) \/ socketCloses(s))

(***************************************************************************)
(* Properties                                                              *)
(***************************************************************************)
Range(seq) == { seq[i] : i \in DOMAIN seq }

\* no processOrder call works on o and o waits in no queue
Settled(o) == pc[o] = "idle" /\ o \notin Range(orderQueue)

\* o passed every validation and every submitter call made for it failed
EverySubmissionFailed(o) ==
  /\ hist[o].validationFailures = 0
  /\ hist[o].submitFailures = hist[o].submitCalls

\* C1: the submitter is invoked once per execution attempt and at most 3
\* times per order (execution_attempts never exceeds 3); an order that passes
\* validation and whose every submission fails settles at failed with
\* execution_attempts = 3 after exactly 3 submitter calls.
C1_RetriesBounded ==
  \A o \in OrderIds :
    /\ orders[o].execution_attempts <= 3
    /\ hist[o].submitCalls = orders[o].execution_attempts
    /\ (Settled(o) /\ EverySubmissionFailed(o)) =>
         /\ orders[o].status = "failed"
         /\ orders[o].execution_attempts = 3
         /\ hist[o].submitCalls = 3

C1_Witness ==
  \E o \in OrderIds :
    /\ Settled(o) /\ EverySubmissionFailed(o)
    /\ hist[o].submitFailures = 3
    /\ orders[o].status = "failed"

\* the order was submitted successfully on its first attempt
FirstTrySuccess(o) ==
  /\ orders[o].execution_attempts = 1
  /\ orders[o].status \in {"monitoring", "completed"}

IsPrefix(p, seq) == Len(p) <= Len(seq) /\ SubSeq(seq, 1, Len(p)) = p

Monitoring(b) ==
  /\ getOrderByAlpacaOrderId(alpacaOrderMap, orders, b) # NoId
  /\ orders[getOrderByAlpacaOrderId(alpacaOrderMap, orders, b)].status = "monitoring"

\* C3: a terminal brokerage update (filled, canceled, expired, rejected) for
\* the brokerage id of a record in monitoring moves the record to completed;
\* this happens at most once per order, and a completed record changes its
\* status no more and causes no further order_updated event.
C3_CompletedOnce ==
  /\ [](\A o \in OrderIds :
          /\ hist[o].completions <= 1
          /\ orders[o].status = "completed" => hist[o].completions = 1)
  /\ [][ /\ \A b \in brokerOrders, st \in {"filled", "canceled", "expired", "rejected"} :
              (Monitoring(b) /\ handleTradeUpdate(b, st)) =>
                orders'[alpacaOrderMap[b]].status = "completed"
         /\ \A o \in OrderIds :
              orders[o].status = "completed" =>
                /\ orders'[o].status = "completed"
                /\ hist'[o].updated = hist[o].updated ]_vars

C3_Witness ==
  \E o \in OrderIds :
    /\ orders[o].status = "completed"
    /\ hist[o].completions = 1
    /\ orders[o].order_response = "canceled"
    /\ orders[o].alpaca_order_id \notin monitoredOrders

\* the validator call in flight for o is for a well-formed buy order on an
\* active account whose estimated cost (notional, or quantity times the ask
\* price) exceeds the reported buying power
CostExceedsBuyingPower(o) ==
  /\ pc[o] = "validating"
  /\ Len(structuralErrors(orders[o].request)) = 0
  /\ orders[o].request.side = "buy"
  /\ valEnv.account = "ACTIVE" /\ valEnv.price > 0
  /\ (IF orders[o].request.notional # 0 THEN orders[o].request.notional
      ELSE orders[o].request.qty * valEnv.price) > valEnv.buying_power

InsufficientBuyingPower(o) ==
  /\ orders[o].status = "failed"
  /\ orders[o].last_error = <<"Validation failed: ", "Insufficient buying power">>

\* C4: when the validator returns for a buy order whose estimated cost
\* exceeds the reported buying power, the record goes from validating to
\* failed with the insufficient-buying-power message, the submitter is not
\* called and the order is not enqueued; afterwards the record stays as it
\* is, is never enqueued or processed again, and the submitter is never
\* called for it (never at all when this was its first validation).
C4_InsufficientBuyingPower ==
  /\ [](\A o \in OrderIds :
          InsufficientBuyingPower(o) =>
            /\ Settled(o)
            /\ hist[o].validateCalls = 1 => hist[o].submitCalls = 0)
  /\ [][ \A o \in OrderIds :
           /\ (CostExceedsBuyingPower(o) /\ pc'[o] # "validating") =>
                /\ orders[o].status = "validating"
                /\ InsufficientBuyingPower(o)'
                /\ hist'[o].submitCalls = hist[o].submitCalls
                /\ o \notin Range(orderQueue')
           /\ InsufficientBuyingPower(o) =>
                /\ orders'[o] = orders[o]
                /\ hist'[o].submitCalls = hist[o].submitCalls ]_vars

C4_Witness ==
  \E o \in OrderIds :
    /\ InsufficientBuyingPower(o)
    /\ hist[o].submitCalls = 0
    /\ hist[o].trail = <<"pending", "validating", "failed">>

\* the orders a processOrder call is working on
InProcess == { o \in OrderIds : pc[o] # "idle" }

\* C5: at most one order is in process at any time; a step that dequeues
\* takes exactly one order from the head of the queue and is taken only while
\* no order is in process.
C5_OneAtATime ==
  /\ [](Cardinality(InProcess) <= 1)
  /\ [][ Len(orderQueue') < Len(orderQueue) =>
           /\ InProcess = {}
           /\ orderQueue' = Tail(orderQueue)
           /\ InProcess' = {Head(orderQueue)} ]_vars

C5_Witness ==
  \E o \in OrderIds :
    /\ pc[o] = "submitting"
    /\ Len(orderQueue) > 0
    /\ processingQueue

\* C6 as claimed: a record whose status is completed or failed keeps that
\* status.
C6_TerminalStatus ==
  [][ \A o \in OrderIds :
        orders[o].status \in {"completed", "failed"} =>
          orders'[o].status = orders[o].status ]_vars

\* C7: cancelOrder invokes the submitter's cancel exactly when the record
\* exists, has a brokerage id and is neither completed nor failed; otherwise
\* it throws without a brokerage call.
C7_CancelGuard ==
  [][ (lastCancel = NoCancel /\ lastCancel' # NoCancel) =>
        /\ lastCancel'.called <=>
             /\ lastCancel'.id \in OrderIds
             /\ orders[lastCancel'.id].alpaca_order_id # NoAlpacaId
             /\ orders[lastCancel'.id].status \notin {"completed", "failed"}
        /\ ~lastCancel'.called =>
             lastCancel'.result \in {"throw: Order not found",
                                     "throw: Order cannot be canceled"} ]_vars

C7_Witness ==
  /\ lastCancel.called
  /\ lastCancel.id \in OrderIds
  /\ orders[lastCancel.id].status = "monitoring"

C9_GiveUpOnce == ehHist.giveUps <= 1

\* C10: between two resets at most maxReconnectAttempts reconnects are
\* scheduled and at most that many reconnect signals are emitted; a
\* handleError or handleDisconnect call made when the counter has reached
\* maxReconnectAttempts starts no timer and leaves none pending, and after
\* such a call no reconnect signal is emitted until the next reset.
C10_ReconnectsBounded ==
  /\ [](/\ Len(ehHist.delays) = reconnectAttempts
        /\ Len(ehHist.delays) <= ehConfig.maxReconnectAttempts
        /\ ehHist.reconnects <= ehConfig.maxReconnectAttempts
        /\ ehHist.giveUps > 0 => reconnectTimer # "pending")
  /\ [][ /\ (reconnectAttempts >= ehConfig.maxReconnectAttempts
             /\ reconnectAttempts' # 0) =>
               /\ reconnectTimer' = "pending" => reconnectTimer = "pending"
               /\ Len(ehHist'.delays) = Len(ehHist.delays)
         /\ (ehHist.giveUps > 0 /\ ehHist'.giveUps > 0) =>
               ehHist'.reconnects = ehHist.reconnects ]_vars

C10_Witness ==
  /\ ehHist.giveUps > 0
  /\ reconnectAttempts = ehConfig.maxReconnectAttempts
  /\ ehHist.reconnects = ehConfig.maxReconnectAttempts
  /\ ehConfig.maxReconnectAttempts > 1

\* C11: with finitely many connect calls from outside, a stream whose
\* sockets all fail (never open, or open and then error or close) sees only
\* finitely many reconnects.
C11_FiniteReconnects ==
  (<>[][~connectDataWebSocket]_vars) => <>[][~reconnectFires]_vars

\* a socket is created by the step
SocketCreated ==
  \E s \in Slots : sockets[s].rs # "CONNECTING" /\ sockets'[s].rs = "CONNECTING"

\* C12: once give-up was emitted the stream's state is error and stays
\* error, and no socket is created, until connect is called from outside.
C12_ErrorIsTerminal ==
  /\ [](wsHist.gaveUp => dataState = "error")
  /\ [][(wsHist.gaveUp /\ ~connectDataWebSocket) =>
          (dataState' = "error" /\ ~SocketCreated)]_vars

\* a reconnect is scheduled by the step
Scheduled == Len(ehHist'.delays) = Len(ehHist.delays) + 1

\* C13: a scheduled reconnect is delayed by min(base * 2^attempt, max) where
\* attempt is the number of reconnects scheduled before it since the last
\* reset (the first delay is the base delay), and the counter grows by one.
C13_BackoffFromBase ==
  [][Scheduled =>
       /\ ehHist'.delays[Len(ehHist'.delays)] =
            Min(ehConfig.reconnectDelay * Pow2(Len(ehHist.delays)),
                ehConfig.maxReconnectDelay)
       /\ reconnectAttempts' = reconnectAttempts + 1]_vars

\* C14: the delays of the reconnects scheduled since the last reset never
\* decrease and none exceeds maxReconnectDelay.
C14_DelaysMonotoneCapped ==
  /\ \A i \in DOMAIN ehHist.delays : ehHist.delays[i] <= ehConfig.maxReconnectDelay
  /\ \A i, j \in DOMAIN ehHist.delays : i <= j => ehHist.delays[i] <= ehHist.delays[j]

C14_Witness ==
  /\ Len(ehHist.delays) >= 3
  /\ ehHist.delays[1] < ehHist.delays[Len(ehHist.delays)]
  /\ ehHist.delays[Len(ehHist.delays)] = ehConfig.maxReconnectDelay
  /\ ehConfig.reconnectDelay * Pow2(reconnectAttempts) > ehConfig.maxReconnectDelay

\* C15: connect called while the stream's socket is open or connecting
\* creates no socket and leaves the connection state as it was.
C15_ConnectIdempotent ==
  [][(/\ connectDataWebSocket
      /\ dataWS # 0
      /\ sockets[dataWS].rs \in {"OPEN", "CONNECTING"}) =>
        (sockets' = sockets /\ dataWS' = dataWS /\ dataState' = dataState)]_vars

\* C16: an authentication acknowledgement received on the stream's socket
\* makes the state authenticated and a subscribe frame for every tracked
\* symbol is sent on that socket.
C16_ResubscribeOnAuth ==
  [][\A s \in Slots :
       (s = dataWS /\ socketMessage(s, "success")) =>
         /\ dataState' = "authenticated"
         /\ subscriptions \subseteq sockets'[s].subs]_vars

\* C17: a health check that finds now - lastMessageTime >= timeout on a
\* connected stream forces the state to error and has the coordinator
\* schedule a reconnect (or give up).
C17_HealthCheckForcesError ==
  [][(/\ checkHealth
      /\ dataState \in {"connected", "authenticated"}
      /\ msgAge \in {"at", "beyond"}) =>
        /\ dataState' = "error"
        /\ \/ Scheduled
           \/ ehHist'.giveUps = ehHist.giveUps + 1]_vars

\* C18: the queue never holds more than maxQueueSize entries.
C18_QueueBounded == Len(messageQueue) <= dpConfig.maxQueueSize

\* a message the bound checks are to keep out, by the configured bounds
OutOfBounds(m) ==
  LET d == m.data
      v == ValidationConfig
      badPrice(x) == x < v.minPrice \/ x > v.maxPrice
      badVolume(x) == x < v.minVolume \/ x > v.maxVolume
  IN \/ d.symbol = ""
     \/ d.timestamp = ""
     \/ m.type = "quote" /\ (badPrice(d.bidPrice) \/ badPrice(d.askPrice) \/ d.spread > v.maxSpread)
     \/ m.type = "trade" /\ (badPrice(d.price) \/ badVolume(d.size))
     \/ m.type = "bar" /\ (\/ badPrice(d.open) \/ badPrice(d.high)
                           \/ badPrice(d.low) \/ badPrice(d.close)
                           \/ badVolume(d.volume))

\* C19: no message with a price outside [minPrice, maxPrice], a size or
\* volume outside [minVolume, maxVolume], a spread above maxSpread or a
\* missing symbol or timestamp is in a batch handed to the sink, nor waits
\* in the queue for it.
C19_NoInvalidDelivered ==
  /\ \A i \in DOMAIN lastBatch : ~OutOfBounds(lastBatch[i])
  /\ \A i \in DOMAIN messageQueue : ~OutOfBounds(messageQueue[i])

C19_Witness ==
  /\ dpHist.rejected
  /\ Len(lastBatch) > 1
  /\ \E i, j \in DOMAIN lastBatch : lastBatch[i].type = "trade" /\ lastBatch[j].type = "bar"

\* the bar's high is below one of open, close, low, or its low is above one
\* of open, close, high
Inconsistent(bar) ==
  \/ bar.high < bar.open \/ bar.high < bar.close \/ bar.high < bar.low
  \/ bar.low > bar.open \/ bar.low > bar.close \/ bar.low > bar.high

\* C20: a bar whose high is below max(open, close, low) or whose low is
\* above min(open, close, high) is never queued.
C20_InconsistentBarRejected ==
  \A i \in DOMAIN messageQueue :
    messageQueue[i].type = "bar" => ~Inconsistent(messageQueue[i].data)

\* C21: when the sink fails while a batch is delivered, the batch is put back
\* at the front of the queue in its original order: the queue after the
\* failed delivery is the queue before the drain
C21_PutBackOnSinkFailure ==
  [][(processBatch(FALSE) \/ processMessages(FALSE)) =>
       messageQueue' = messageQueue]_vars

\* a failed delivery of a batch of two messages with one more left behind it
C21_Witness ==
  /\ dpHist.sink = "failed"
  /\ Len(lastBatch) = 2
  /\ Len(messageQueue) = 3
  /\ SubSeq(messageQueue, 1, 2) = lastBatch
  /\ messageQueue[1] # messageQueue[2]

\* the validateOrder call has ended
Called == ovResult.outcome # "pending"

BothMessage == "Cannot specify both quantity and notional"
EitherMessage == "Either quantity or notional must be specified"

\* C22: a request with both qty and notional is rejected with the error
\* that both may not be given, and a request with neither is rejected with
\* the error that one of them is required.
C22_QuantityXorNotional ==
  Called =>
    /\ (ovRequest.qty # 0 /\ ovRequest.notional # 0) =>
         /\ ovResult.outcome = "returned" /\ ~ovResult.valid
         /\ BothMessage \in Range(ovResult.errors)
    /\ (ovRequest.qty = 0 /\ ovRequest.notional = 0) =>
         /\ ovResult.outcome = "returned" /\ ~ovResult.valid
         /\ EitherMessage \in Range(ovResult.errors)

\* a request that is complete but for setting both qty and notional
C22_Witness ==
  /\ Called
  /\ ovRequest = [BaseRequest EXCEPT !.qty = 2, !.notional = 2]
  /\ ovResult = Returned(FALSE, <<BothMessage>>)

\* the structural rules a request breaks
ViolatedRules(order) ==
  { rule \in {"symbol", "side", "type", "time_in_force", "quantity", "limit_price",
              "stop_price", "stop_limit_price", "take_profit", "stop_loss"} :
      \/ rule = "symbol" /\ order.symbol = ""
      \/ rule = "side" /\ order.side = ""
      \/ rule = "type" /\ order.type = ""
      \/ rule = "time_in_force" /\ order.time_in_force = ""
      \/ rule = "quantity" /\ (order.qty # 0) = (order.notional # 0)
      \/ rule = "limit_price" /\ order.type = "limit" /\ order.limit_price = 0
      \/ rule = "stop_price" /\ order.type \in {"stop", "stop_limit"}
                             /\ order.stop_price = 0
      \/ rule = "stop_limit_price" /\ order.type = "stop_limit"
                                   /\ order.limit_price = 0
      \/ rule = "take_profit" /\ order.order_class = "bracket" /\ ~order.take_profit
      \/ rule = "stop_loss" /\ order.order_class = "bracket" /\ ~order.stop_loss }

WellFormed(order) == ViolatedRules(order) = {}

\* the estimated order value: notional, or quantity times the ask price
EstimatedValue == 
  IF ovRequest.notional # 0 THEN ovRequest.notional ELSE ovRequest.qty * ovEnv.price

\* the call was for a well-formed buy order on an active account whose
\* quote was obtained
BuyChecked ==
  /\ Called
  /\ WellFormed(ovRequest)
  /\ ovRequest.side = "buy"
  /\ ovEnv.account = "ACTIVE" /\ ovEnv.price # -1

InsufficientMessage == "Insufficient buying power"

WithinBuyingPower ==
  /\ Called
  /\ WellFormed(ovRequest)
  /\ ovEnv.account = "ACTIVE"
  /\ ovRequest.side = "buy" =>
       ovEnv.price # -1 /\ EstimatedValue <= ovEnv.buying_power

\* C24: every well-formed order whose estimated value does not exceed the
\* buying power (on an active account, the quote of a buy order obtained) is
\* accepted: the call returns valid = true with an empty errors list.
C24_AcceptedWithinBuyingPower ==
  WithinBuyingPower => ovResult = Returned(TRUE, <<>>)

\* the error text of a structural rule for an order of the given type
RuleMessage(rule, type) ==
  CASE rule = "symbol" -> "Symbol is required"
    [] rule = "side" -> "Side is required"
    [] rule = "type" -> "Type is required"
    [] rule = "time_in_force" -> "Time in force is required"
    [] rule = "limit_price" -> "Limit price is required for limit orders"
    [] rule = "stop_price" /\ type = "stop" -> "Stop price is required for stop orders"
    [] rule = "stop_price" /\ type # "stop" -> "Stop price is required for stop limit orders"
    [] rule = "stop_limit_price" -> "Limit price is required for stop limit orders"
    [] rule = "take_profit" -> "Take profit is required for bracket orders"
    [] rule = "stop_loss" -> "Stop loss is required for bracket orders"

\* C25: for a request that breaks structural rules, the errors list has
\* exactly one entry for each broken rule: its length is the number of
\* broken rules and the text of each broken rule is in it.
C25_AllViolationsReported ==
  (Called /\ ~WellFormed(ovRequest)) =>
    /\ ovResult.outcome = "returned" /\ ~ovResult.valid
    /\ Len(ovResult.errors) = Cardinality(ViolatedRules(ovRequest))
    /\ \A rule \in ViolatedRules(ovRequest) \ {"quantity"} :
         RuleMessage(rule, ovRequest.type) \in Range(ovResult.errors)
    /\ "quantity" \in ViolatedRules(ovRequest) =>
         Range(ovResult.errors) \cap {BothMessage, EitherMessage} # {}

\* a stop-limit bracket order without prices and sub-orders: five rules
\* broken, five errors returned
C25_Witness ==
  /\ Called
  /\ ovRequest = [BaseRequest EXCEPT !.type = "stop_limit", !.qty = 0,
                                     !.order_class = "bracket"]
  /\ Len(ovResult.errors) = 5

\* C26: the call never throws: it returns a result, a result with
\* valid = false has a non-empty errors list and a result with valid = true
\* an empty one; a failed account lookup, quote lookup or order post is
\* returned as valid = false.
C26_NeverThrows ==
  Called =>
    /\ ovResult.outcome = "returned"
    /\ ovResult.valid <=> ovResult.errors = <<>>
    /\ (\/ ovEnv.account = "error"
        \/ ovEnv.account = "ACTIVE" /\ ovRequest.side = "buy" /\ ovEnv.price = -1
        \/ ovEnv.post = "error") => ~ovResult.valid

\* the quote lookup of a well-formed buy order failed and the call returned
\* the failure as data
C26_Witness ==
  /\ Called
  /\ WellFormed(ovRequest) /\ ovRequest.side = "buy"
  /\ ovEnv.account = "ACTIVE" /\ ovEnv.price = -1 /\ ovEnv.errKind = "neterr"
  /\ ovResult = Returned(FALSE, <<"Validation error: An unexpected error occurred">>)

\* the submitOrder call has ended
Ended == osCall.pc \in {"returned", "thrown"}

C28_AtMostOneRetry == Len(osCall.posted) <= 2

\* C29: order_update is emitted only for a brokerage id that is tracked;
\* the step that emits an update with status filled, canceled, expired or
\* rejected removes the id from the tracked set, the id is not tracked
\* again, and no further order_update is emitted for it.
C29_UpdatesOnlyWhileTracked ==
  [][ /\ \A b \in brokerOrders, st \in UpdateStatuses :
           handleTradeUpdate(b, st) =>
             /\ hist' # hist => b \in monitoredOrders
             /\ (b \in monitoredOrders /\ st \in TerminalStatuses) =>
                  b \notin monitoredOrders'
      /\ \A o \in OrderIds :
           hist[o].completions >= 1 =>
             /\ hist'[o].updated = hist[o].updated
             /\ orders'[o].alpaca_order_id \notin monitoredOrders' ]_vars

\* an order that got a partial fill and then its terminal update, and is
\* no longer tracked
C29_Witness ==
  \E o \in OrderIds :
    /\ hist[o].updated = 2
    /\ hist[o].completions = 1
    /\ orders[o].order_response = "filled"
    /\ orders[o].alpaca_order_id \in brokerOrders \ monitoredOrders

\* C30: run beside a stream whose reconnection is run by an ErrorHandler, on
\* the same opens and closes, the Order Monitor has the same attempt
\* counter, has scheduled reconnects with the same delays since the last
\* open, and has given up as often.
C30_SameReconnectBehaviour ==
  /\ omReconnectAttempts = reconnectAttempts
  /\ omHist.giveUps = ehHist.giveUps
  /\ Len(omHist.delays) = Len(ehHist.delays)
  /\ \A i \in DOMAIN omHist.delays \cap DOMAIN ehHist.delays :
       omHist.delays[i].num = ehHist.delays[i] * omHist.delays[i].den

\* C31: when updateOrder has changed the brokerage id of a record from A to
\* another value, getOrderByAlpacaOrderId(A) no longer returns that record,
\* also when the caller passed the object it got from getOrderById.
C31_StaleMappingRetracted ==
  (repoLast.op = "update" /\ repoLast.from # NoAlpacaId /\ repoLast.from # repoLast.to) =>
    getOrderByAlpacaOrderId(repoIndex, repoOrders, repoLast.from) # repoLast.id

\* C40: every entry of the brokerage-id index refers to a stored record
\* whose brokerage id is the key, and every stored record that has a
\* brokerage id is the one getOrderByAlpacaOrderId returns for it.
C40_IndexConsistent ==
  /\ \A a \in DOMAIN repoIndex :
       /\ repoIndex[a] \in DOMAIN repoOrders
       /\ repoOrders[repoIndex[a]].alpaca_order_id = a
  /\ \A id \in DOMAIN repoOrders :
       repoOrders[id].alpaca_order_id # NoAlpacaId =>
         getOrderByAlpacaOrderId(repoIndex, repoOrders, repoOrders[id].alpaca_order_id) = id

\* the coordinator was told of an error: it has scheduled one more
\* reconnect or given up once more
Reported ==
  \/ ehHist'.delays = Append(ehHist.delays, reconnectDelayFor(reconnectAttempts', ehConfig))
     /\ reconnectAttempts' = reconnectAttempts + 1
     /\ reconnectTimer' = "pending"
  \/ ehHist'.giveUps = ehHist.giveUps + 1

\* C32: a frame with an unknown tag changes neither the connection state
\* nor the coordinator nor any socket; a frame that cannot be parsed is
\* handed to the coordinator as an error and leaves every socket as it is.
C32_UnknownDroppedUnparseableReported ==
  [][\A s \in Slots :
       /\ socketMessage(s, "unknown") =>
            UNCHANGED <<dataState, dataWS, sockets, subscriptions, ehVars>>
       /\ socketMessage(s, "unparseable") =>
            Reported /\ UNCHANGED <<dataWS, sockets, subscriptions>>]_vars

\* an unparseable frame was handled on the connected stream: a reconnect
\* is pending and the socket is still open
C32_Witness ==
  /\ wsHist.frame = "unparseable"
  /\ dataState = "connected" /\ dataSocketOpen
  /\ reconnectTimer = "pending" /\ reconnectAttempts = 1

\* C33: an order that waits in the queue after a failed submission attempt
\* has status retrying, and the Executor has emitted no order_failed for an
\* order that has attempts left.
C33_RetryingUntilDequeued ==
  \A o \in OrderIds :
    /\ (o \in Range(orderQueue) /\ hist[o].submitFailures > 0) =>
         orders[o].status = "retrying"
    /\ (hist[o].failed > 0 /\ hist[o].validationFailures = 0) =>
         ~shouldRetry(orders[o])

\* C34: once the brokerage has reported a terminal status for an order it
\* accepted, the record eventually becomes completed.
C34_TerminalUpdateNotLost ==
  \A o \in TUOrderIds :
    (tuOrders[o].reported \in TerminalStatuses) ~> (tuOrders[o].status = "completed")

\* C35: validating an order creates no brokerage order, so that an
\* attempt that is validated and then submitted makes one order-creation
\* request, the submitter's.
C35_ValidatingCreatesNoOrder ==
  [][\A o \in OrderIds :
       validationReturns(o) =>
         ~(validatorPosts(orders[o].request, valEnv) /\ valEnv.post = "ok")]_vars

\* C36: every accepted order eventually reaches monitoring, completed or
\* failed, and the in-progress flag is clear whenever no order is in
\* process, so that an order that failed does not block the orders behind
\* it.
C36_EveryOrderSettles ==
  /\ \A id \in 1..MaxOrders :
       (id \in DOMAIN orders) ~>
         (id \in DOMAIN orders /\ orders[id].status \in {"monitoring", "completed", "failed"})
  /\ [](InProcess = {} => ~processingQueue)

C36_Witness ==
  \E o1, o2 \in OrderIds :
    /\ o1 < o2
    /\ orders[o1].status = "failed" /\ hist[o1].failed > 0
    /\ orders[o2].status = "monitoring"
    /\ InProcess = {} /\ ~processingQueue

\* C37: a failed connection (the 'error' of a connecting socket with its
\* 'close' behind it) consumes one reconnect attempt: the 'close' that
\* follows the 'error' consumes none.
C37_OneAttemptPerFailedConnection ==
  [][\A s \in Slots :
       (emitting = s /\ socketCloses(s)) => reconnectAttempts' = reconnectAttempts]_vars

\* C38: the periodic old-data cleanup, which runs DataProcessor.cleanup,
\* discards no queued message.
C38_CleanupKeepsQueue ==
  [][cleanupProcessor => messageQueue' = messageQueue]_vars

\* C39: addMessage with a message that fails validation leaves the queue
\* exactly as it was, whatever its size.
C39_InvalidLeavesQueue ==
  [][\A m \in Messages :
       (addMessage(m) /\ ~validateMessage(m, ValidationConfig)) =>
         messageQueue' = messageQueue]_vars

====
